---- MODULE Spec2Model ----
(***************************************************************************)
(* A model of agt_sim.py: the payoff-matrix builder, the three solvers     *)
(* (fictitious play, replicator dynamics, the 2x2 bimatrix solver) and the *)
(* orchestrator analyze_all_areas.                                         *)
(*                                                                         *)
(* Numbers.  The program computes in binary floating point; the model      *)
(* computes in exact rational arithmetic.  A rational is a pair <<n, d>>   *)
(* with d > 0 and gcd(n, d) = 1, so equal numbers are equal values.        *)
(* Indices.  numpy indexes from 0; sequences here index from 1, so row k   *)
(* of the program is row k+1 of the model.                                 *)
(***************************************************************************)
EXTENDS Integers, Sequences, FiniteSets, TLC

VARIABLES
    agg,        \* the aggregate table of company_month_aggregate: key -> value
    bp,         \* one call of build_payoff_matrix_from_observations
    fp,         \* one run of fictitious_play
    rd,         \* one run of replicator_dynamics
    lh,         \* one call of compute_lemke_howson_for_pair
    pc,         \* analyze_all_areas: where the run stands
    area_i,     \* analyze_all_areas: index of the area being processed
    month_i,    \* analyze_all_areas: index of the next month of that area
    area_res,   \* analyze_all_areas: the record being filled for the area
    results,    \* analyze_all_areas: area -> area_res
    visited,    \* history: the (area, month) pairs in the order processed
    nfail,      \* history: solver failures injected so far
    cli,        \* text_to_sql_ollama.main: one invocation of the SQL tool
    database    \* history: the statements sent to the SQLite database

vars == <<agg, bp, fp, rd, lh, pc, area_i, month_i, area_res, results, visited, nfail,
          cli, database>>

----------------------------------------------------------------------------
(* Exact rational arithmetic standing for the program's floats.            *)

AbsInt(x) == IF x < 0 THEN -x ELSE x

RECURSIVE GCD(_, _)
GCD(a, b) == IF b = 0 THEN a ELSE GCD(b, a % b)

\* The rational n/d (d # 0) in lowest terms with a positive denominator.
Rat(n, d) ==
    LET g == GCD(AbsInt(n), AbsInt(d))
        s == IF d < 0 THEN -1 ELSE 1
    IN  <<(s * n) \div g, (s * d) \div g>>

FromInt(i) == <<i, 1>>
Zero == <<0, 1>>
One == <<1, 1>>

RNeg(x) == <<-x[1], x[2]>>

RAdd(x, y) ==
    LET g == GCD(x[2], y[2])
    IN  Rat(x[1] * (y[2] \div g) + y[1] * (x[2] \div g), (x[2] \div g) * y[2])

RSub(x, y) == RAdd(x, RNeg(y))

\* Cross-cancelled before multiplying, so the products stay small.
RMul(x, y) ==
    LET g1 == GCD(AbsInt(x[1]), y[2])
        g2 == GCD(AbsInt(y[1]), x[2])
    IN  Rat((x[1] \div g1) * (y[1] \div g2), (x[2] \div g2) * (y[2] \div g1))

RInv(x) == IF x[1] < 0 THEN <<-x[2], -x[1]>> ELSE <<x[2], x[1]>>

RDiv(x, y) == RMul(x, RInv(y))

RFloor(x) == x[1] \div x[2]

\* x < y, by integer parts first and then by the fractional parts.
RLt(x, y) ==
    LET fx == RFloor(x)
        fy == RFloor(y)
    IN  IF fx # fy THEN fx < fy
        ELSE (x[1] - fx * x[2]) * y[2] < (y[1] - fy * y[2]) * x[2]

RLe(x, y) == ~RLt(y, x)

RMax(x, y) == IF RLt(x, y) THEN y ELSE x
RMin(x, y) == IF RLt(y, x) THEN y ELSE x
RAbs(x) == <<AbsInt(x[1]), x[2]>>

RECURSIVE RSumSeq(_)
RSumSeq(s) == IF s = <<>> THEN Zero ELSE RAdd(s[1], RSumSeq(Tail(s)))

\* numpy's a.dot(b) for two vectors of the same length.
RECURSIVE Dot(_, _)
Dot(a, b) == IF a = <<>> THEN Zero ELSE RAdd(RMul(a[1], b[1]), Dot(Tail(a), Tail(b)))

\* A function on 1..n is a sequence: Vec(f) = f.  (SubSeq makes TLC compute
\* the elements once, instead of at every later use of the function.)
Vec(f) == SubSeq(f, 1, Len(f))

\* numpy's M.dot(v) for a matrix (a sequence of rows) and a vector.
MatVec(M, v) == Vec([i \in 1..Len(M) |-> Dot(M[i], v)])

\* A.T for a square matrix
Transpose(A) == Vec([i \in 1..Len(A) |-> Vec([j \in 1..Len(A) |-> A[j][i]])])

----------------------------------------------------------------------------
(* The aggregate table.  A key is <<trading_area, month, company>>; agg is *)
(* a function from the keys that have a row to the row's value.  Python    *)
(* sorts strings; the model sorts by the position in these lists.          *)

AreaOrder == <<"X", "Y">>
MonthOrder == <<"2025-01", "2025-02", "2025-03">>
CompanyOrder == <<"A", "B", "C", "D">>

Range(s) == {s[i] : i \in 1..Len(s)}

Reverse(s) == [i \in 1..Len(s) |-> s[Len(s) + 1 - i]]

\* Mutant of Sorted: descending order.
Sorted_Reversed(S, order) == Reverse(SelectSeq(order, LAMBDA x : x \in S))

\* sorted(S) for a set S of names drawn from the list `order`.
Sorted(S, order) == SelectSeq(order, LAMBDA x : x \in S)

RECURSIVE SumValues(_, _)
SumValues(tbl, keys) ==
    IF keys = {} THEN 0
    ELSE LET k == CHOOSE k \in keys : TRUE
         IN  tbl[k] + SumValues(tbl, keys \ {k})

\* Mutant of AreaMonthTotal: the area filter is missing.
AreaMonthTotal_AllAreas(agg_df, trading_area, month) ==
    SumValues(agg_df, {k \in DOMAIN agg_df : k[2] = month})

\* agg_df[(area == a) & (month == m)]['value'].sum()
AreaMonthTotal(agg_df, trading_area, month) ==
    SumValues(agg_df, {k \in DOMAIN agg_df : k[1] = trading_area /\ k[2] = month})

\* agg_df[(area == a) & (month == m) & (company == c)]['value'].sum()
CompanyValue(agg_df, trading_area, month, company) ==
    SumValues(agg_df, {k \in DOMAIN agg_df :
                          k[1] = trading_area /\ k[2] = month /\ k[3] = company})

\* Mutant of companies_in_area: the area filter is missing.
companies_in_area_AllAreas(agg_df, trading_area) ==
    Sorted({k[3] : k \in DOMAIN agg_df}, CompanyOrder)

companies_in_area(agg_df, trading_area) ==
    Sorted({k[3] : k \in {k \in DOMAIN agg_df : k[1] = trading_area}}, CompanyOrder)

months_in_area(agg_df, trading_area) ==
    Sorted({k[2] : k \in {k \in DOMAIN agg_df : k[1] = trading_area}}, MonthOrder)

areas_in(agg_df) == Sorted({k[1] : k \in DOMAIN agg_df}, AreaOrder)

----------------------------------------------------------------------------
(* build_payoff_matrix_from_observations                                   *)

eps_total == <<1, 1000000000>>      \* 1e-9
influence_factor == <<1, 4>>        \* 0.25
cap == <<50, 1>>                    \* 50.0
Hundred == <<100, 1>>               \* 100.0

\* np.clip(x, lo, hi)
Clip(x, lo, hi) == RMin(RMax(x, lo), hi)

ZeroMatrix(n) == Vec([i \in 1..n |-> Vec([j \in 1..n |-> Zero])])

\* Mutant of ShareChangePP: the difference is taken the other way, sp - sc.
ShareChangePP_Swapped(agg_df, trading_area, m_prev, m_curr, c) ==
    LET total_prev == RMax(FromInt(AreaMonthTotal(agg_df, trading_area, m_prev)), eps_total)
        total_curr == RMax(FromInt(AreaMonthTotal(agg_df, trading_area, m_curr)), eps_total)
        val_prev == FromInt(CompanyValue(agg_df, trading_area, m_prev, c))
        val_curr == FromInt(CompanyValue(agg_df, trading_area, m_curr, c))
        sp == RDiv(val_prev, total_prev)
        sc == RDiv(val_curr, total_curr)
    IN  RMul(RSub(sp, sc), Hundred)

\* Mutant of ShareChangePP: the previous share is not subtracted.
ShareChangePP_NotDifferenced(agg_df, trading_area, m_prev, m_curr, c) ==
    LET total_curr == RMax(FromInt(AreaMonthTotal(agg_df, trading_area, m_curr)), eps_total)
        val_curr == FromInt(CompanyValue(agg_df, trading_area, m_curr, c))
        sc == RDiv(val_curr, total_curr)
    IN  RMul(sc, Hundred)

\* Mutant of ShareChangePP: a company without a row in the current month is
\* skipped, its change left at 0.
ShareChangePP_MissingSkipped(agg_df, trading_area, m_prev, m_curr, c) ==
    LET total_prev == RMax(FromInt(AreaMonthTotal(agg_df, trading_area, m_prev)), eps_total)
        total_curr == RMax(FromInt(AreaMonthTotal(agg_df, trading_area, m_curr)), eps_total)
        val_prev == FromInt(CompanyValue(agg_df, trading_area, m_prev, c))
        val_curr == FromInt(CompanyValue(agg_df, trading_area, m_curr, c))
        sp == RDiv(val_prev, total_prev)
        sc == RDiv(val_curr, total_curr)
    IN  IF <<trading_area, m_curr, c>> \in DOMAIN agg_df
        THEN RMul(RSub(sc, sp), Hundred)
        ELSE Zero

\* (sc - sp) * 100.0 for company c between months m_prev and m_curr
ShareChangePP(agg_df, trading_area, m_prev, m_curr, c) ==
    LET total_prev == RMax(FromInt(AreaMonthTotal(agg_df, trading_area, m_prev)), eps_total)
        total_curr == RMax(FromInt(AreaMonthTotal(agg_df, trading_area, m_curr)), eps_total)
        val_prev == FromInt(CompanyValue(agg_df, trading_area, m_prev, c))
        val_curr == FromInt(CompanyValue(agg_df, trading_area, m_curr, c))
        sp == RDiv(val_prev, total_prev)
        sc == RDiv(val_curr, total_curr)
    IN  RMul(RSub(sc, sp), Hundred)

\* Mutant of PayoffCell: the opponent's change is added, not subtracted.
PayoffCell_Added(own, opp, i, j) ==
    IF i = j THEN own ELSE RAdd(own, RMul(influence_factor, opp))

\* One cell before the clamp: own on the diagonal, own - 0.25 * opp off it.
PayoffCell(own, opp, i, j) ==
    IF i = j THEN own ELSE RSub(own, RMul(influence_factor, opp))

\* Mutant of ClipMatrix: the clamp is left out.
ClipMatrix_None(M) == M

\* np.clip(M, -cap, cap)
ClipMatrix(M) ==
    Vec([i \in 1..Len(M) |-> Vec([j \in 1..Len(M[i]) |-> Clip(M[i][j], RNeg(cap), cap)])])

\* The matrix filled from the share changes (lines 159-174).
FillMatrix(share_change_pp) ==
    Vec([i \in 1..Len(share_change_pp) |-> Vec([j \in 1..Len(share_change_pp) |->
            PayoffCell(share_change_pp[i], share_change_pp[j], i, j)])])

\* The matrix of a month that has a predecessor (lines 131-181).
TransitionMatrix(agg_df, trading_area, companies, m_prev, m_curr) ==
    LET n == Len(companies)
        share_change_pp ==
            Vec([i \in 1..n |->
                    ShareChangePP(agg_df, trading_area, m_prev, m_curr, companies[i])])
    IN  ClipMatrix(FillMatrix(share_change_pp))

\* Mutant of build_payoff_matrix_from_observations: the month_index == 0 test is
\* missing, so the first month is compared with months_sorted[-1], the last one.
build_without_first_month_test(agg_df, trading_area, month_index, months_sorted) ==
    LET companies == companies_in_area(agg_df, trading_area)
        n == Len(companies)
    IN  IF n = 0 THEN <<ZeroMatrix(0), companies>>
        ELSE <<TransitionMatrix(agg_df, trading_area, companies,
                   months_sorted[IF month_index = 0 THEN Len(months_sorted) ELSE month_index],
                   months_sorted[month_index + 1]), companies>>

\* Returns <<M, companies>>.  months_sorted[month_index - 1] and
\* months_sorted[month_index] of the program are months_sorted[month_index] and
\* months_sorted[month_index + 1] here.
build_payoff_matrix_from_observations(agg_df, trading_area, month_index, months_sorted) ==
    LET companies == companies_in_area(agg_df, trading_area)
        n == Len(companies)
    IN  IF n = 0 THEN <<ZeroMatrix(0), companies>>
        ELSE IF month_index = 0 THEN <<ZeroMatrix(n), companies>>
        ELSE <<TransitionMatrix(agg_df, trading_area, companies,
                   months_sorted[month_index], months_sorted[month_index + 1]), companies>>

----------------------------------------------------------------------------
(* Inputs of the builder's specification: tables over one main area with   *)
(* two companies and three months, plus an optional extra row.             *)

Volumes == {0, 40, 50, 60}
BuildKeys == {<<"X", m, c>> : m \in {"2025-01", "2025-02"}, c \in {"A", "B"}}
LateKeys == {<<"X", "2025-03", c>> : c \in {"A", "B"}}
LateVolumes == {50}
ExtraRows == { <<>>,
               (<<"X", "2025-02", "C">> :> 50),
               (<<"Y", "2025-01", "B">> :> 40) }

Idle == [pc |-> "idle"]

OrchIdle ==
    /\ pc = "idle" /\ area_i = 0 /\ month_i = 0
    /\ area_res = <<>> /\ results = <<>> /\ visited = <<>> /\ nfail = 0

\* The SQL tool is a separate program; it is idle while the simulation runs.
ToolIdle == cli = Idle /\ database = <<>>

InitBuild ==
    /\ \E early \in SUBSET BuildKeys, late \in SUBSET LateKeys, e \in ExtraRows :
          \E f \in [early -> Volumes], g \in [late -> LateVolumes] : agg = f @@ g @@ e
    /\ bp = [pc |-> "ready"]
    /\ fp = Idle /\ rd = Idle /\ lh = Idle
    /\ OrchIdle /\ ToolIdle

\* One call, with the months list the orchestrator passes for the area.
Build ==
    /\ bp.pc = "ready"
    /\ \E trading_area \in Range(AreaOrder) :
          LET months_sorted == months_in_area(agg, trading_area)
          IN  \E month_index \in 0..(IF Len(months_sorted) = 0 THEN 0
                                     ELSE Len(months_sorted) - 1) :
                 LET ret == build_payoff_matrix_from_observations(
                                agg, trading_area, month_index, months_sorted)
                 IN  bp' = [pc |-> "returned", trading_area |-> trading_area,
                            month_index |-> month_index, months_sorted |-> months_sorted,
                            M |-> ret[1], companies |-> ret[2]]
    /\ UNCHANGED <<cli, database, agg, fp, rd, lh, pc, area_i, month_i, area_res, results, visited, nfail>>

NextBuild == Build

SpecBuild == InitBuild /\ [][NextBuild]_vars

----------------------------------------------------------------------------
(* Claims about the builder, stated from the raw table by integer          *)
(* arithmetic, independently of the operators above.                       *)

RowsOf(trading_area, month) ==
    {k \in DOMAIN agg : k[1] = trading_area /\ k[2] = month}

\* The volume of company c in a month of the area (0 without a row).
Vol(trading_area, month, c) ==
    IF <<trading_area, month, c>> \in DOMAIN agg THEN agg[<<trading_area, month, c>>] ELSE 0

\* Total(month) by enumeration of the company names.
Tot(trading_area, month) ==
    Vol(trading_area, month, "A") + Vol(trading_area, month, "B") + Vol(trading_area, month, "C")

\* d_c = 100 * (value_curr/total_curr - value_prev/total_prev) as a fraction
\* <<numerator, denominator>>, denominator > 0; a month with total 0 has
\* only zero volumes, so its shares are 0 whatever positive total divides.
DNum(a, mp, mc, c) ==
    LET tp == IF Tot(a, mp) = 0 THEN 1 ELSE Tot(a, mp)
        tc == IF Tot(a, mc) = 0 THEN 1 ELSE Tot(a, mc)
    IN  100 * (Vol(a, mc, c) * tp - Vol(a, mp, c) * tc)

DDen(a, mp, mc) ==
    LET tp == IF Tot(a, mp) = 0 THEN 1 ELSE Tot(a, mp)
        tc == IF Tot(a, mc) = 0 THEN 1 ELSE Tot(a, mc)
    IN  tc * tp

\* The cell <<n, d>> equals the fraction num/den clamped to [-50, 50].
IsClamped(cell, num, den) ==
    IF num > 50 * den THEN cell = <<50, 1>>
    ELSE IF num < -50 * den THEN cell = <<-50, 1>>
    ELSE cell[1] * den = num * cell[2]

BuiltLate == bp.pc = "returned" /\ bp.month_index >= 1 /\ Len(bp.companies) >= 1

ExampleTable ==
    /\ RowsOf("X", "2025-01") = {<<"X", "2025-01", "A">>, <<"X", "2025-01", "B">>}
    /\ RowsOf("X", "2025-02") = {<<"X", "2025-02", "A">>, <<"X", "2025-02", "B">>}
    /\ agg[<<"X", "2025-01", "A">>] = 40 /\ agg[<<"X", "2025-02", "A">>] = 50
    /\ agg[<<"X", "2025-01", "B">>] = 60 /\ agg[<<"X", "2025-02", "B">>] = 50

ExampleMatrix == << <<<<10, 1>>, <<25, 2>>>>, <<<<-25, 2>>, <<-10, 1>>>> >>

\* C1: for N >= 1 and month_index >= 1 the returned matrix has
\* M[i][i] = clamp(d_i) and M[i][j] = clamp(d_i - 0.25 * d_j) for i # j, with
\* d_c = 100 * (value_curr[c]/total_curr - value_prev[c]/total_prev) and clamp to
\* [-50, 50]; A (40 -> 50 of 100) and B (60 -> 50 of 100) give
\* [[10, 12.5], [-12.5, -10]].
C1_PayoffFormula ==
    BuiltLate =>
        LET a == bp.trading_area
            mp == bp.months_sorted[bp.month_index]
            mc == bp.months_sorted[bp.month_index + 1]
            n == Len(bp.companies)
            den == DDen(a, mp, mc)
        IN  /\ Len(bp.M) = n
            /\ \A i \in 1..n :
                  /\ Len(bp.M[i]) = n
                  /\ \A j \in 1..n :
                        LET di == DNum(a, mp, mc, bp.companies[i])
                            dj == DNum(a, mp, mc, bp.companies[j])
                        IN  IF i = j THEN IsClamped(bp.M[i][j], di, den)
                            ELSE IsClamped(bp.M[i][j], 4 * di - dj, 4 * den)
            /\ (ExampleTable /\ a = "X" /\ bp.month_index = 1 /\ n = 2)
                  => bp.M = ExampleMatrix

C1_Witness ==
    /\ BuiltLate /\ ExampleTable
    /\ bp.trading_area = "X" /\ bp.month_index = 1
    /\ bp.companies = <<"A", "B">> /\ bp.M = ExampleMatrix

\* C2: a call with month_index = 0 returns the all-zero N x N matrix, N the
\* number of distinct companies with a row anywhere in the area, and the list of
\* those companies.
C2_FirstMonthZero ==
    (bp.pc = "returned" /\ bp.month_index = 0) =>
        LET cs == {k[3] : k \in {k \in DOMAIN agg : k[1] = bp.trading_area}}
            n == Cardinality(cs)
        IN  /\ Len(bp.companies) = n
            /\ Range(bp.companies) = cs
            /\ Len(bp.M) = n
            /\ \A i \in 1..n : Len(bp.M[i]) = n /\ \A j \in 1..n : bp.M[i][j] = <<0, 1>>

\* A first-month call on an area whose later months would give a nonzero matrix.
C2_Witness ==
    /\ bp.pc = "returned" /\ bp.month_index = 0
    /\ Len(bp.companies) = 3 /\ Len(bp.M) = 3
    /\ Len(bp.months_sorted) >= 2
    /\ Vol("X", "2025-01", "A") = 40 /\ Vol("X", "2025-02", "A") = 60

\* The months compared by the call that returned.
PrevMonth == bp.months_sorted[bp.month_index]
CurrMonth == bp.months_sorted[bp.month_index + 1]

HasRow(month, c) == <<bp.trading_area, month, c>> \in DOMAIN agg

\* C18: a company of the area without a row in a month counts with volume 0
\* there: the matrix is the one of the table with an explicit zero row for it;
\* a company without a row in either month has the diagonal cell 0, and one
\* without a row in the current month only has the diagonal cell
\* clamp(-100 * its previous share).
C18_MissingIsZero ==
    BuiltLate =>
        \A i \in 1..Len(bp.companies) :
            LET c == bp.companies[i]
                a == bp.trading_area
            IN  /\ \A m \in {PrevMonth, CurrMonth} :
                      ~HasRow(m, c) =>
                          build_payoff_matrix_from_observations(
                              (<<a, m, c>> :> 0) @@ agg, a, bp.month_index, bp.months_sorted)
                            = <<bp.M, bp.companies>>
                /\ (~HasRow(PrevMonth, c) /\ ~HasRow(CurrMonth, c)) => bp.M[i][i] = <<0, 1>>
                /\ (HasRow(PrevMonth, c) /\ ~HasRow(CurrMonth, c)) =>
                      IsClamped(bp.M[i][i], -100 * agg[<<a, PrevMonth, c>>],
                                IF Tot(a, PrevMonth) = 0 THEN 1 ELSE Tot(a, PrevMonth))

\* A call comparing 2025-02 with 2025-03 in which A has a row in 2025-01
\* only, and C, with 50 of the 110 of 2025-02, has no row in 2025-03.
C18_Witness ==
    /\ BuiltLate /\ bp.trading_area = "X" /\ bp.companies = <<"A", "B", "C">>
    /\ PrevMonth = "2025-02" /\ CurrMonth = "2025-03"
    /\ HasRow("2025-01", "A") /\ ~HasRow("2025-02", "A") /\ ~HasRow("2025-03", "A")
    /\ HasRow("2025-02", "C") /\ ~HasRow("2025-03", "C")
    /\ Tot("X", "2025-02") = 110
    /\ bp.M[1][1] = <<0, 1>>
    /\ bp.M[3][3] = <<-500, 11>>

ZeroTotal(month) == Tot(bp.trading_area, month) = 0

\* C19: when the total of the previous or of the current month is zero the
\* call returns an N x N matrix whose k-th diagonal cell is
\* clamp(+100 * share_curr) of companies[k] when the previous total is zero,
\* clamp(-100 * share_prev) when the current total is zero, the shares of a
\* month of total zero being 0.
C19_ZeroTotalFloored ==
    (BuiltLate /\ (ZeroTotal(PrevMonth) \/ ZeroTotal(CurrMonth))) =>
        LET a == bp.trading_area
            n == Len(bp.companies)
        IN  /\ Len(bp.M) = n
            /\ \A k \in 1..n :
                  /\ Len(bp.M[k]) = n
                  /\ IF ZeroTotal(PrevMonth) /\ ZeroTotal(CurrMonth)
                     THEN bp.M[k][k] = <<0, 1>>
                     ELSE IF ZeroTotal(PrevMonth)
                     THEN IsClamped(bp.M[k][k], 100 * Vol(a, CurrMonth, bp.companies[k]),
                                    Tot(a, CurrMonth))
                     ELSE IsClamped(bp.M[k][k], -100 * Vol(a, PrevMonth, bp.companies[k]),
                                    Tot(a, PrevMonth))

\* A call whose previous month has rows of volume 0 only, and whose current
\* month gives A 40 of 100.
C19_Witness ==
    /\ BuiltLate /\ bp.trading_area = "X" /\ bp.companies = <<"A", "B">>
    /\ PrevMonth = "2025-01" /\ CurrMonth = "2025-02"
    /\ HasRow("2025-01", "A") /\ ZeroTotal("2025-01")
    /\ Vol("X", "2025-02", "A") = 40 /\ Vol("X", "2025-02", "B") = 60
    /\ bp.M[1][1] = <<40, 1>> /\ bp.M[2][2] = <<50, 1>>

\* C3: every cell of every returned matrix lies in [-50, 50].
C3_CellsWithinCap ==
    bp.pc = "returned" =>
        \A i \in 1..Len(bp.M) : \A j \in 1..Len(bp.M[i]) :
            /\ -50 * bp.M[i][j][2] <= bp.M[i][j][1]
            /\ bp.M[i][j][1] <= 50 * bp.M[i][j][2]

\* A returned matrix with a cell whose unclamped value exceeds the cap.
C3_Witness ==
    /\ BuiltLate
    /\ \E i \in 1..Len(bp.M) :
          /\ bp.M[i][i] = <<50, 1>>
          /\ DNum(bp.trading_area, bp.months_sorted[bp.month_index],
                  bp.months_sorted[bp.month_index + 1], bp.companies[i])
               > 50 * DDen(bp.trading_area, bp.months_sorted[bp.month_index],
                           bp.months_sorted[bp.month_index + 1])

----------------------------------------------------------------------------
(* fictitious_play                                                         *)

\* np.ones(n) / n
Uniform(n) == Vec([i \in 1..n |-> RDiv(One, FromInt(n))])

\* Mutant of ArgMax: the last index holding the maximum.
ArgMax_Last(v) ==
    CHOOSE i \in 1..Len(v) :
        /\ \A j \in 1..Len(v) : RLe(v[j], v[i])
        /\ \A j \in (i + 1)..Len(v) : RLt(v[j], v[i])

\* np.argmax(v) for a non-empty v: the first index holding the maximum.
ArgMax(v) ==
    CHOOSE i \in 1..Len(v) :
        /\ \A j \in 1..Len(v) : RLe(v[j], v[i])
        /\ \A j \in 1..(i - 1) : RLt(v[j], v[i])

RECURSIVE SumInts(_)
SumInts(s) == IF s = <<>> THEN 0 ELSE s[1] + SumInts(Tail(s))

\* The state before the loop (lines 220-224).
FPStart(game_matrix) ==
    LET n == Len(game_matrix)
    IN  [cum_counts |-> Vec([i \in 1..n |-> 0]), opp_belief |-> Uniform(n)]

\* Mutant of Empirical: the counts are divided by one more than their sum.
Empirical_OffByOne(cum_counts) ==
    Vec([i \in 1..Len(cum_counts) |->
            RDiv(FromInt(cum_counts[i]), FromInt(SumInts(cum_counts) + 1))])

\* cum_counts / cum_counts.sum()
Empirical(cum_counts) ==
    Vec([i \in 1..Len(cum_counts) |->
            RDiv(FromInt(cum_counts[i]), FromInt(SumInts(cum_counts)))])

\* Mutant of FPIterate: np.argmin in the place of np.argmax.
FPIterate_ArgMin(game_matrix, st) ==
    LET ev == MatVec(game_matrix, st.opp_belief)
        br == ArgMax(Vec([i \in 1..Len(ev) |-> RNeg(ev[i])]))
        counts == [st.cum_counts EXCEPT ![br] = @ + 1]
    IN  [cum_counts |-> counts, opp_belief |-> Empirical(counts)]

\* One pass of the loop body (lines 228-232), for a matrix with n >= 1.
FPIterate(game_matrix, st) ==
    LET ev == MatVec(game_matrix, st.opp_belief)
        br == ArgMax(ev)
        counts == [st.cum_counts EXCEPT ![br] = @ + 1]
    IN  [cum_counts |-> counts, opp_belief |-> Empirical(counts)]

RECURSIVE FPLoop(_, _, _)
FPLoop(game_matrix, st, k) ==
    IF k = 0 THEN st ELSE FPLoop(game_matrix, FPIterate(game_matrix, st), k - 1)

\* The call as a whole: np.argmax of an empty vector raises ValueError, so a
\* 0 x 0 matrix with steps >= 1 raises; every other call returns opp_belief.
fictitious_play(game_matrix, steps) ==
    IF Len(game_matrix) = 0 /\ steps >= 1
    THEN [raised |-> TRUE, value |-> <<>>]
    ELSE [raised |-> FALSE, value |-> FPLoop(game_matrix, FPStart(game_matrix), steps).opp_belief]

----------------------------------------------------------------------------
(* replicator_dynamics                                                     *)

dt_default == <<1, 100>>            \* 0.01

\* np.maximum(p, 0)
ClipNegative(p) == Vec([i \in 1..Len(p) |-> RMax(p[i], Zero)])

\* Mutant of EulerStep: p + dt * (payoffs - avg), the change not in proportion
\* to p.
EulerStep_NotProportional(p, dt, payoffs, avg) ==
    Vec([i \in 1..Len(p) |-> RAdd(p[i], RMul(dt, RSub(payoffs[i], avg)))])

\* p + dt * p * (payoffs - avg) (line 245)
EulerStep(p, dt, payoffs, avg) ==
    Vec([i \in 1..Len(p) |-> RAdd(p[i], RMul(RMul(dt, p[i]), RSub(payoffs[i], avg)))])

\* Mutant of EulerWithPayoffs: avg = payoffs.sum(), not weighted by p.
EulerWithPayoffs_SumAvg(p, dt, payoffs) == EulerStep(p, dt, payoffs, RSumSeq(payoffs))

\* avg = p.dot(payoffs) (line 244)
EulerWithPayoffs(p, dt, payoffs) == EulerStep(p, dt, payoffs, Dot(p, payoffs))

\* Mutant of EulerUpdate: payoffs = p.dot(payoff_matrix), the matrix transposed.
EulerUpdate_Transposed(payoff_matrix, p, dt) ==
    EulerWithPayoffs(p, dt, MatVec(Transpose(payoff_matrix), p))

\* payoffs = payoff_matrix.dot(p), then the update (lines 243-245)
EulerUpdate(payoff_matrix, p, dt) == EulerWithPayoffs(p, dt, MatVec(payoff_matrix, p))

\* Mutant of Renormalise: the division by the sum is left out.
Renormalise_None(p) ==
    LET s == RSumSeq(p)
    IN  IF RLe(s, Zero) THEN Uniform(Len(p)) ELSE p

\* Lines 248-252: uniform when the sum is not positive, else p / s.
Renormalise(p) ==
    LET s == RSumSeq(p)
    IN  IF RLe(s, Zero) THEN Uniform(Len(p))
        ELSE Vec([i \in 1..Len(p) |-> RDiv(p[i], s)])

\* s = p.sum() of line 248, after the update and the clipping of lines 243-247.
SumAfterClip(payoff_matrix, p, dt) ==
    RSumSeq(ClipNegative(EulerUpdate(payoff_matrix, p, dt)))

\* One pass of the loop body (lines 243-252).
RDIterate(payoff_matrix, p, dt) ==
    Renormalise(ClipNegative(EulerUpdate(payoff_matrix, p, dt)))

RECURSIVE RDLoop(_, _, _, _)
RDLoop(payoff_matrix, p, dt, k) ==
    IF k = 0 THEN p ELSE RDLoop(payoff_matrix, RDIterate(payoff_matrix, p, dt), dt, k - 1)

replicator_dynamics(payoff_matrix, steps, dt) ==
    RDLoop(payoff_matrix, Uniform(Len(payoff_matrix)), dt, steps)

----------------------------------------------------------------------------
(* Inputs of the solvers' specifications: square matrices of 1 to MaxN     *)
(* rows.  The cells of a matrix of up to two rows range over Cells; a      *)
(* larger matrix has its cells in WideCells.  A matrix with cells beyond   *)
(* 100 in size makes the replicator update negative at dt = 0.01.  The     *)
(* exact value of p needs about three times the digits after each pass,    *)
(* which is why the replicator runs stop at two passes.                    *)

MaxN == 2
MaxSteps == 3
Cells == {<<-400, 1>>, <<0, 1>>, <<25, 2>>, <<200, 1>>}
WideCells == {<<-400, 1>>, <<200, 1>>}
RDStepChoices == {0, 1, 2}

SquareMatrices(n) ==
    IF n <= 2 THEN [1..n -> [1..n -> Cells]]
    ELSE [1..n -> [1..n -> WideCells]] \cup {ZeroMatrix(n)}

BuildIdle == agg = <<>> /\ bp = Idle

InitFP ==
    /\ \E n \in 0..MaxN : \E M \in SquareMatrices(n) : \E steps \in 0..MaxSteps :
          fp = [pc |-> "loop", game_matrix |-> M, steps |-> steps, t |-> 0,
                cum_counts |-> FPStart(M).cum_counts, opp_belief |-> FPStart(M).opp_belief]
    /\ BuildIdle /\ rd = Idle /\ lh = Idle /\ OrchIdle /\ ToolIdle

\* for t in range(steps): one pass.  On a 0 x 0 matrix ev is empty and
\* np.argmax(ev) raises ValueError (line 229).
FPStep ==
    /\ fp.pc = "loop" /\ fp.t < fp.steps
    /\ IF Len(fp.game_matrix) = 0
       THEN fp' = [fp EXCEPT !.pc = "raised"]
       ELSE LET st == FPIterate(fp.game_matrix, fp)
            IN  fp' = [fp EXCEPT !.t = @ + 1, !.cum_counts = st.cum_counts,
                                 !.opp_belief = st.opp_belief]
    /\ UNCHANGED <<cli, database, agg, bp, rd, lh, pc, area_i, month_i, area_res, results, visited, nfail>>

\* Mutant of FPReturn: a convergence test, the loop also ends once a pass has
\* been made.
FPReturn_Converged ==
    /\ fp.pc = "loop" /\ (fp.t = fp.steps \/ fp.t >= 1)
    /\ fp' = [fp EXCEPT !.pc = "returned"]
    /\ UNCHANGED <<cli, database, agg, bp, rd, lh, pc, area_i, month_i, area_res, results, visited, nfail>>

\* return opp_belief
FPReturn ==
    /\ fp.pc = "loop" /\ fp.t = fp.steps
    /\ fp' = [fp EXCEPT !.pc = "returned"]
    /\ UNCHANGED <<cli, database, agg, bp, rd, lh, pc, area_i, month_i, area_res, results, visited, nfail>>

NextFP == FPStep \/ FPReturn

SpecFP == InitFP /\ [][NextFP]_vars

InitRD ==
    /\ \E n \in 0..MaxN : \E M \in SquareMatrices(n) : \E steps \in RDStepChoices :
          rd = [pc |-> "loop", payoff_matrix |-> M, steps |-> steps, dt |-> dt_default,
                t |-> 0, p |-> Uniform(n), sums |-> <<>>]
    /\ BuildIdle /\ fp = Idle /\ lh = Idle /\ OrchIdle /\ ToolIdle

\* for _ in range(steps): one pass
RDStep ==
    /\ rd.pc = "loop" /\ rd.t < rd.steps
    /\ rd' = [rd EXCEPT !.t = @ + 1, !.p = RDIterate(rd.payoff_matrix, rd.p, rd.dt),
                         !.sums = Append(@, SumAfterClip(rd.payoff_matrix, rd.p, rd.dt))]
    /\ UNCHANGED <<cli, database, agg, bp, fp, lh, pc, area_i, month_i, area_res, results, visited, nfail>>

\* return p
RDReturn ==
    /\ rd.pc = "loop" /\ rd.t = rd.steps
    /\ rd' = [rd EXCEPT !.pc = "returned"]
    /\ UNCHANGED <<cli, database, agg, bp, fp, lh, pc, area_i, month_i, area_res, results, visited, nfail>>

NextRD == RDStep \/ RDReturn

SpecRD == InitRD /\ [][NextRD]_vars

\* The loop body as a function of p and dt: one pass from any distribution p
\* over a grid of fractions, with a step size of DtChoices, next to the runs
\* of the whole function.  `sums` is a history of the values s of line 248.
DtChoices == {dt_default, <<1, 1>>, <<-1, 1>>}

GridFractions == {<<0, 1>>, <<1, 4>>, <<1, 3>>, <<1, 2>>, <<2, 3>>, <<3, 4>>, <<1, 1>>}

Distributions(n) == {p \in [1..n -> GridFractions] : RSumSeq(p) = One}

InitRDBody ==
    \/ InitRD
    \/ /\ \E n \in 1..MaxN : \E M \in SquareMatrices(n) : \E p \in Distributions(n) :
             \E dt \in DtChoices :
                rd = [pc |-> "body", payoff_matrix |-> M, dt |-> dt, p0 |-> p, p |-> p,
                      sums |-> <<>>]
       /\ BuildIdle /\ fp = Idle /\ lh = Idle /\ OrchIdle /\ ToolIdle

\* Lines 243-252 applied once to p.
RDBody ==
    /\ rd.pc = "body"
    /\ rd' = [rd EXCEPT !.pc = "body_done", !.p = RDIterate(rd.payoff_matrix, rd.p, rd.dt),
                         !.sums = Append(@, SumAfterClip(rd.payoff_matrix, rd.p, rd.dt))]
    /\ UNCHANGED <<cli, database, agg, bp, fp, lh, pc, area_i, month_i, area_res, results, visited, nfail>>

NextRDBody == RDStep \/ RDReturn \/ RDBody

SpecRDBody == InitRDBody /\ [][NextRDBody]_vars

\* The two dynamics side by side: a run of fictitious_play or a run of
\* replicator_dynamics.  The interpreter runs a started call on, so a step that
\* can be taken is taken.
InitDynamics == InitFP \/ InitRD

NextDynamics == FPStep \/ FPReturn \/ RDStep \/ RDReturn

SpecDynamics == InitDynamics /\ [][NextDynamics]_vars

\* A loop has a pass to make: this is when FPStep, or RDStep, is enabled.
FPPassLeft == fp.pc = "loop" /\ fp.t < fp.steps
RDPassLeft == rd.pc = "loop" /\ rd.t < rd.steps

\* The last two conjuncts are WF_vars(FPStep) and WF_vars(RDStep) with their
\* enabling conditions written as FPPassLeft and RDPassLeft.
FairSpecDynamics ==
    /\ SpecDynamics
    /\ WF_vars(FPReturn) /\ WF_vars(RDReturn)
    /\ ([]<>(~FPPassLeft) \/ []<><<FPStep>>_vars)
    /\ ([]<>(~RDPassLeft) \/ []<><<RDStep>>_vars)

----------------------------------------------------------------------------
(* nashpy's Game.support_enumeration for a 2 x 2 bimatrix game (A, B), the *)
(* library call of line 205.  A strategy is a pair of probabilities; a     *)
(* support is a non-empty subset of {1, 2}.                                *)


\* The non-empty supports in the order of itertools' powerset: (0,), (1,), (0, 1).
Supports == <<{1}, {2}, {1, 2}>>

NoSolution == [ok |-> FALSE, prob |-> <<>>]

\* solve_indifference(A, rows, columns): the strategy over the columns, zero
\* outside `columns`, that makes the rows of `rows` pay the same.  The linear
\* system is square only when the supports have the same size; np.linalg.solve
\* raises LinAlgError on any other system and on a singular one, which nashpy
\* answers with False, as it does a solution with a negative entry.
solve_indifference(A, rows, columns) ==
    IF Cardinality(rows) # Cardinality(columns) THEN NoSolution
    ELSE IF Cardinality(rows) = 1
    THEN [ok |-> TRUE, prob |-> Vec([c \in 1..2 |-> IF c \in columns THEN One ELSE Zero])]
    ELSE LET a == RSub(A[1][1], A[2][1])
             b == RSub(A[1][2], A[2][2])
             det == RSub(a, b)
         IN  IF det = Zero THEN NoSolution
             ELSE LET prob == <<RDiv(RNeg(b), det), RDiv(a, det)>>
                  IN  IF \A c \in 1..2 : RLe(Zero, prob[c])
                      THEN [ok |-> TRUE, prob |-> prob]
                      ELSE NoSolution

\* obey_support(strategy, support, tol): positive exactly on the support.  The
\* tolerance 1e-16 is below every positive value these matrices can give.
obey_support(strategy, support) ==
    /\ strategy.ok
    /\ \A c \in 1..2 : IF c \in support THEN RLt(Zero, strategy.prob[c])
                       ELSE RLe(strategy.prob[c], Zero)

\* max of a non-empty set of rationals
RMaxOf(S) == CHOOSE x \in S : \A y \in S : RLe(y, x)

\* is_ne: the best payoff over all pure strategies is reached on the support.
is_ne(s1, s2, support1, support2, A, B) ==
    LET row_payoffs == MatVec(A, s2)
        column_payoffs == MatVec(Transpose(B), s1)
    IN  /\ RMaxOf(Range(row_payoffs)) = RMaxOf({row_payoffs[r] : r \in support1})
        /\ RMaxOf(Range(column_payoffs)) = RMaxOf({column_payoffs[c] : c \in support2})

\* The pair of strategies of one pair of supports, if it is an equilibrium.
SupportPair(A, B, support1, support2, s1, s2) ==
    IF /\ obey_support(s1, support1) /\ obey_support(s2, support2)
       /\ is_ne(s1.prob, s2.prob, support1, support2, A, B)
    THEN << <<s1.prob, s2.prob>> >>
    ELSE <<>>

\* The k-th pair of supports, in enumeration order.
Support1(k) == Supports[((k - 1) \div 3) + 1]
Support2(k) == Supports[((k - 1) % 3) + 1]

\* The equilibria of the support pairs from index k on, in enumeration order.
RECURSIVE EnumerateFrom(_, _, _)
EnumerateFrom(A, B, k) ==
    IF k > 9 THEN <<>>
    ELSE SupportPair(A, B, Support1(k), Support2(k),
                     solve_indifference(Transpose(B), Support2(k), Support1(k)),
                     solve_indifference(A, Support1(k), Support2(k)))
             \o EnumerateFrom(A, B, k + 1)

\* list(game.support_enumeration())
support_enumeration(A, B) == EnumerateFrom(A, B, 1)

----------------------------------------------------------------------------
(* compute_lemke_howson_for_pair                                           *)

\* np.abs(np.diag(payoff_matrix))
AbsDiag(payoff_matrix) == Vec([k \in 1..Len(payoff_matrix) |-> RAbs(payoff_matrix[k][k])])

\* Mutant of LastTwoOfArgsort: both indices are np.argmax(diag), so i = j.
LastTwoOfArgsort_ArgMaxTwice(diag) ==
    {<<ArgMax(diag), ArgMax(diag)>>}

\* Mutant of LastTwoOfArgsort: the slice is [:2], the two smallest entries.
LastTwoOfArgsort_FirstTwo(diag) ==
    {ij \in (1..Len(diag)) \X (1..Len(diag)) :
        /\ ij[1] # ij[2]
        /\ RLe(diag[ij[1]], diag[ij[2]])
        /\ \A k \in 1..Len(diag) : k \in {ij[1], ij[2]} \/ RLe(diag[ij[2]], diag[k])}

\* np.argsort(diag)[-2:]: the pairs <<i, j>> some ascending order of diag ends
\* with.  numpy's default sort is not stable, so equal entries may come in any
\* order.
LastTwoOfArgsort(diag) ==
    {ij \in (1..Len(diag)) \X (1..Len(diag)) :
        /\ ij[1] # ij[2]
        /\ RLe(diag[ij[1]], diag[ij[2]])
        /\ \A k \in 1..Len(diag) : k \in {ij[1], ij[2]} \/ RLe(diag[k], diag[ij[1]])}

\* Mutant of FocalMatrix: the two off-diagonal cells are exchanged.
FocalMatrix_Swapped(payoff_matrix, i, j) ==
    << <<payoff_matrix[i][i], payoff_matrix[j][i]>>,
       <<payoff_matrix[i][j], payoff_matrix[j][j]>> >>

\* The 2 x 2 matrix of the focal players (line 201).
FocalMatrix(payoff_matrix, i, j) ==
    << <<payoff_matrix[i][i], payoff_matrix[i][j]>>,
       <<payoff_matrix[j][i], payoff_matrix[j][j]>> >>

\* Mutant of GameOf: the column player is paid by A itself, not its transpose.
GameOf_NoTranspose(A) == <<A, A>>

\* nash.Game(A, A.T): the row player's and the column player's payoff matrices.
GameOf(A) == <<A, Transpose(A)>>

EmptyDict == [raised |-> FALSE, ret |-> <<>>, focal |-> <<>>, game |-> <<>>]

\* Mutant of TryNash: no except clause, the library's exception leaves the call.
TryNash_NoExcept(A, companies, i, j, nash_fails) ==
    IF nash_fails
    THEN [raised |-> TRUE, ret |-> <<>>, focal |-> <<i, j>>, game |-> GameOf(A)]
    ELSE [raised |-> FALSE, focal |-> <<i, j>>, game |-> GameOf(A),
          ret |-> [players |-> <<companies[i], companies[j]>>,
                   matrix_pair |-> A,
                   equilibria |-> support_enumeration(GameOf(A)[1], GameOf(A)[2])]]

\* Lines 203-212.  nash_fails: the library raises while the game is built or
\* its equilibria are listed; the except clause turns that into the error record.
TryNash(A, companies, i, j, nash_fails) ==
    IF nash_fails
    THEN [raised |-> FALSE, ret |-> [error |-> "nash"], focal |-> <<i, j>>, game |-> GameOf(A)]
    ELSE [raised |-> FALSE, focal |-> <<i, j>>, game |-> GameOf(A),
          ret |-> [players |-> <<companies[i], companies[j]>>,
                   matrix_pair |-> A,
                   equilibria |-> support_enumeration(GameOf(A)[1], GameOf(A)[2])]]

\* Mutant of compute_lemke_howson_for_pair: the n < 2 test is missing, and
\* idx[1] of a one-entry idx raises IndexError at line 200, outside the try.
compute_without_size_test(payoff_matrix, companies, nash_fails) ==
    IF Len(payoff_matrix) = 0 THEN {EmptyDict}
    ELSE IF Len(payoff_matrix) < 2
    THEN {[raised |-> TRUE, ret |-> <<>>, focal |-> <<>>, game |-> <<>>]}
    ELSE {TryNash(FocalMatrix(payoff_matrix, ij[1], ij[2]), companies, ij[1], ij[2], nash_fails) :
             ij \in LastTwoOfArgsort(AbsDiag(payoff_matrix))}

\* The outcomes of one call: what it returns (ret), whether an exception leaves
\* it (raised), the focal indices it chose and the game it built.
compute_lemke_howson_for_pair(payoff_matrix, companies, nash_fails) ==
    IF Len(payoff_matrix) = 0 THEN {EmptyDict}
    ELSE IF Len(payoff_matrix) < 2 THEN {EmptyDict}
    ELSE {TryNash(FocalMatrix(payoff_matrix, ij[1], ij[2]), companies, ij[1], ij[2], nash_fails) :
             ij \in LastTwoOfArgsort(AbsDiag(payoff_matrix))}

\* Matrices of n rows whose diagonal ranges over DiagCells and whose cell
\* (i, j) off the diagonal is 10 * i + j, so that every cell tells its place.
DiagCells == Cells \cup {<<-200, 1>>}

LabelledMatrices(n) ==
    {Vec([i \in 1..n |-> Vec([j \in 1..n |-> IF i = j THEN d[i] ELSE <<10 * i + j, 1>>])]) :
        d \in [1..n -> DiagCells]}

\* The matrices of a call: those of the other solvers, and the labelled ones
\* of one more row.
LHMatrices(n) == IF n <= MaxN THEN SquareMatrices(n) ELSE LabelledMatrices(n)

InitLH ==
    /\ \E n \in 0..(MaxN + 1) : \E M \in LHMatrices(n) : \E nash_fails \in BOOLEAN :
          lh = [pc |-> "called", payoff_matrix |-> M,
                companies |-> SubSeq(CompanyOrder, 1, n), nash_fails |-> nash_fails]
    /\ BuildIdle /\ fp = Idle /\ rd = Idle /\ OrchIdle /\ ToolIdle

LHCall ==
    /\ lh.pc = "called"
    /\ \E out \in compute_lemke_howson_for_pair(lh.payoff_matrix, lh.companies, lh.nash_fails) :
          lh' = [pc |-> IF out.raised THEN "raised" ELSE "returned",
                 payoff_matrix |-> lh.payoff_matrix, companies |-> lh.companies,
                 nash_fails |-> lh.nash_fails, ret |-> out.ret, focal |-> out.focal,
                 game |-> out.game]
    /\ UNCHANGED <<cli, database, agg, bp, fp, rd, pc, area_i, month_i, area_res, results, visited, nfail>>

NextLH == LHCall

SpecLH == InitLH /\ [][NextLH]_vars

----------------------------------------------------------------------------
(* The solvers on the builder's matrix, as lines 270-279 call them: the    *)
(* matrix of one call of the builder over a table of two months, then      *)
(* fictitious_play or compute_lemke_howson_for_pair on it.  The number of  *)
(* passes of fictitious_play is left open.                                 *)

InitSolveBuilt ==
    /\ InitBuild
    /\ \A k \in DOMAIN agg : k[2] # "2025-03"

\* fictitious_play(M) if M.size (line 272)
FPCallOnBuilt ==
    /\ bp.pc = "returned" /\ fp.pc = "idle" /\ lh.pc = "idle"
    /\ Len(bp.M) > 0
    /\ \E steps \in 1..MaxSteps :
          fp' = [pc |-> "loop", game_matrix |-> bp.M, steps |-> steps, t |-> 0,
                 cum_counts |-> FPStart(bp.M).cum_counts,
                 opp_belief |-> FPStart(bp.M).opp_belief]
    /\ UNCHANGED <<cli, database, agg, bp, rd, lh, pc, area_i, month_i, area_res, results, visited, nfail>>

\* compute_lemke_howson_for_pair(M, companies) if M.size (line 279)
LHCallOnBuilt ==
    /\ bp.pc = "returned" /\ fp.pc = "idle" /\ lh.pc = "idle"
    /\ Len(bp.M) > 0
    /\ \E nash_fails \in BOOLEAN :
          \E out \in compute_lemke_howson_for_pair(bp.M, bp.companies, nash_fails) :
             lh' = [pc |-> IF out.raised THEN "raised" ELSE "returned",
                    payoff_matrix |-> bp.M, companies |-> bp.companies,
                    nash_fails |-> nash_fails, ret |-> out.ret, focal |-> out.focal,
                    game |-> out.game]
    /\ UNCHANGED <<cli, database, agg, bp, fp, rd, pc, area_i, month_i, area_res, results, visited, nfail>>

NextSolveBuilt == Build \/ FPCallOnBuilt \/ FPStep \/ FPReturn \/ LHCallOnBuilt

SpecSolveBuilt == InitSolveBuilt /\ [][NextSolveBuilt]_vars

----------------------------------------------------------------------------
(* Claims about the solvers.                                               *)

IsProbabilityVector(v, n) ==
    /\ Len(v) = n
    /\ \A i \in 1..n : v[i][1] >= 0 /\ v[i][2] > 0
    /\ RSumSeq(v) = <<1, 1>>

\* C4: for N >= 1 fictitious_play holds, and returns, a vector of N
\* non-negative entries summing to 1; after t >= 1 iterations it equals
\* counts / t with counts non-negative integers summing to t.
C4_BeliefIsDistribution ==
    (fp.pc \in {"loop", "returned"} /\ Len(fp.game_matrix) >= 1) =>
        LET n == Len(fp.game_matrix)
        IN  /\ IsProbabilityVector(fp.opp_belief, n)
            /\ Len(fp.cum_counts) = n
            /\ \A i \in 1..n : fp.cum_counts[i] \in Nat
            /\ SumInts(fp.cum_counts) = fp.t
            /\ fp.t >= 1 =>
                  \A i \in 1..n :
                      fp.opp_belief[i][1] * fp.t = fp.cum_counts[i] * fp.opp_belief[i][2]
            /\ fp.pc = "returned" => fp.t = fp.steps

\* A returned run whose best response changed between its two iterations.
C4_Witness ==
    /\ fp.pc = "returned" /\ fp.t = 2
    /\ fp.cum_counts = <<1, 1>>
    /\ fp.opp_belief = << <<1, 2>>, <<1, 2>> >>

FocalCell(r, c) == lh.payoff_matrix[lh.focal[r]][lh.focal[c]]

\* What the row player earns with pure row r against the column strategy s2,
\* and the column player (paid by the transpose) with pure column c against s1.
RowPay(r, s2) == RAdd(RMul(FocalCell(r, 1), s2[1]), RMul(FocalCell(r, 2), s2[2]))
ColPay(c, s1) == RAdd(RMul(s1[1], FocalCell(c, 1)), RMul(s1[2], FocalCell(c, 2)))

HasEquilibria == lh.pc = "returned" /\ "equilibria" \in DOMAIN lh.ret

\* C6: every equilibrium of the returned record is a pair of 2-vectors, each
\* non-negative and summing to 1, and for each player no pure strategy outside
\* the support pays strictly more than one inside it against the other
\* player's strategy (row player paid by A, column player by its transpose).
C6_EquilibriaAreBestResponses ==
    HasEquilibria =>
        \A e \in 1..Len(lh.ret.equilibria) :
            LET eq == lh.ret.equilibria[e]
                s1 == eq[1]
                s2 == eq[2]
            IN  /\ Len(eq) = 2
                /\ IsProbabilityVector(s1, 2)
                /\ IsProbabilityVector(s2, 2)
                /\ \A k \in 1..2 : \A l \in 1..2 :
                      (s1[k] = <<0, 1>> /\ s1[l] # <<0, 1>>)
                          => RLe(RowPay(k, s2), RowPay(l, s2))
                /\ \A k \in 1..2 : \A l \in 1..2 :
                      (s2[k] = <<0, 1>> /\ s2[l] # <<0, 1>>)
                          => RLe(ColPay(k, s1), ColPay(l, s1))

\* A record holding an equilibrium in which both players mix, next to pure ones.
C6_Witness ==
    /\ HasEquilibria
    /\ Len(lh.ret.equilibria) = 3
    /\ \E e \in 1..3 : \A k \in 1..2 :
          lh.ret.equilibria[e][1][k][1] > 0 /\ lh.ret.equilibria[e][2][k][1] > 0

ExpectedPayoff(k) == Dot(fp.game_matrix[k], fp.opp_belief)

\* Row br is the lowest index among the rows of the largest expected payoff.
LowestBestRow(br) ==
    /\ \A k \in 1..Len(fp.game_matrix) : RLe(ExpectedPayoff(k), ExpectedPayoff(br))
    /\ \A k \in 1..(br - 1) : RLt(ExpectedPayoff(k), ExpectedPayoff(br))

C20_Iteration ==
    (fp.pc = "loop" /\ fp'.pc = "loop" /\ fp'.t = fp.t + 1) =>
        \E br \in 1..Len(fp.game_matrix) :
            /\ LowestBestRow(br)
            /\ \A k \in 1..Len(fp.game_matrix) :
                  /\ fp'.cum_counts[k] = fp.cum_counts[k] + (IF k = br THEN 1 ELSE 0)
                  /\ fp'.opp_belief[k][1] * SumInts(fp'.cum_counts)
                        = fp'.cum_counts[k] * fp'.opp_belief[k][2]

\* C20: every iteration picks the lowest index among the rows maximising
\* the expected payoff M . beliefs, adds 1 to that row's count and to no
\* other, and sets the beliefs to the counts divided by their sum.
C20_LowestBestResponseCounted == [][C20_Iteration]_vars

\* Two iterations on a matrix whose rows pay the same against every belief:
\* the first row is chosen both times.
C20_Witness ==
    /\ fp.pc = "loop" /\ fp.t = 2 /\ Len(fp.game_matrix) = 2
    /\ fp.game_matrix[1] = fp.game_matrix[2]
    /\ fp.game_matrix[1][1] # fp.game_matrix[1][2]
    /\ fp.cum_counts = <<2, 0>>

\* Every strategy has the same expected payoff under p: M . p is constant.
ConstantPayoffs(M, p) ==
    \A i \in 1..Len(M) : \A k \in 1..Len(M) : Dot(M[i], p) = Dot(M[k], p)

\* All rows of M have the same sum.
EqualRowSums(M) ==
    \A i \in 1..Len(M) : \A k \in 1..Len(M) : RSumSeq(M[i]) = RSumSeq(M[k])

\* C15: one pass of the loop body from a distribution p under which every
\* strategy has the same expected payoff returns p unchanged; and on a
\* matrix whose rows all have the same sum, p is the uniform vector after
\* every pass and on return.
C15_FixedPointUnchanged ==
    /\ (rd.pc = "body_done" /\ ConstantPayoffs(rd.payoff_matrix, rd.p0)) => rd.p = rd.p0
    /\ (rd.pc \in {"loop", "returned"} /\ EqualRowSums(rd.payoff_matrix)) =>
          \A i \in 1..Len(rd.payoff_matrix) : rd.p[i] = <<1, Len(rd.payoff_matrix)>>

\* One pass from the fixed point (1/3, 2/3) of [[0, 0], [-400, 200]], which is
\* not the uniform vector.
C15_Witness ==
    /\ rd.pc = "body_done"
    /\ rd.payoff_matrix = << <<<<0, 1>>, <<0, 1>>>>, <<<<-400, 1>>, <<200, 1>>>> >>
    /\ rd.p0 = << <<1, 3>>, <<2, 3>> >>
    /\ ConstantPayoffs(rd.payoff_matrix, rd.p0)
    /\ rd.p = rd.p0

AbsLe(x, y) == AbsInt(x[1]) * y[2] <= AbsInt(y[1]) * x[2]

FocalChosen == lh.pc = "returned" /\ Len(lh.payoff_matrix) >= 2

\* C13: for N >= 2 the focal indices (i, j) are distinct, j holds the
\* largest absolute diagonal value and i the second largest,
\* |M[j][j]| >= |M[i][i]| >= |M[k][k]| for every other k, and the players
\* reported are (companies[i], companies[j]).
C13_FocalAreTopTwo ==
    FocalChosen =>
        LET i == lh.focal[1]
            j == lh.focal[2]
            M == lh.payoff_matrix
        IN  /\ i \in 1..Len(M) /\ j \in 1..Len(M) /\ i # j
            /\ AbsLe(M[i][i], M[j][j])
            /\ \A k \in 1..Len(M) : k \in {i, j} \/ AbsLe(M[k][k], M[i][i])
            /\ "players" \in DOMAIN lh.ret =>
                  lh.ret.players = <<lh.companies[i], lh.companies[j]>>

\* A call on three companies whose largest diagonal magnitude is the first
\* company's and whose second largest is the third's.
C13_Witness ==
    /\ FocalChosen /\ Len(lh.payoff_matrix) = 3
    /\ lh.focal = <<3, 1>>
    /\ lh.payoff_matrix[1][1] = <<-400, 1>> /\ lh.payoff_matrix[3][3] = <<200, 1>>
    /\ lh.payoff_matrix[2][2] = <<25, 2>>
    /\ "players" \in DOMAIN lh.ret /\ lh.ret.players = <<"C", "A">>

\* C14: the game solved for the focal indices (i, j) has the row player's
\* matrix A = [[M[i][i], M[i][j]], [M[j][i], M[j][j]]] and the column player's
\* matrix the transpose of A, and the record's matrix_pair is A.
C14_GameIsFocalMatrixAndTranspose ==
    FocalChosen =>
        LET i == lh.focal[1]
            j == lh.focal[2]
            M == lh.payoff_matrix
            A == << <<M[i][i], M[i][j]>>, <<M[j][i], M[j][j]>> >>
        IN  /\ lh.game[1] = A
            /\ lh.game[2] = << <<A[1][1], A[2][1]>>, <<A[1][2], A[2][2]>> >>
            /\ "matrix_pair" \in DOMAIN lh.ret => lh.ret.matrix_pair = A

\* A call on a labelled matrix: the cells off the diagonal of A are those of
\* places (3, 1) and (1, 3).
C14_Witness ==
    /\ FocalChosen /\ lh.focal = <<3, 1>>
    /\ "matrix_pair" \in DOMAIN lh.ret
    /\ lh.ret.matrix_pair[1][2] = <<31, 1>> /\ lh.ret.matrix_pair[2][1] = <<13, 1>>
    /\ lh.game[2][1][2] = <<13, 1>>

\* C11: for N = 0 and N = 1 the three solvers, called directly or through
\* analyze_all_areas, do not raise and return empty outputs (an empty vector,
\* the empty record).
C11_SmallGamesReturnEmpty ==
    /\ (fp.pc # "idle" /\ Len(fp.game_matrix) <= 1) =>
          /\ fp.pc # "raised"
          /\ fp.pc = "returned" => fp.opp_belief = <<>>
    /\ (rd.pc # "idle" /\ Len(rd.payoff_matrix) <= 1) =>
          /\ rd.pc # "raised"
          /\ rd.pc = "returned" => rd.p = <<>>
    /\ (lh.pc # "idle" /\ Len(lh.payoff_matrix) <= 1) =>
          /\ lh.pc # "raised"
          /\ lh.pc = "returned" => DOMAIN lh.ret = {}
    /\ pc # "aborted"
    /\ (pc = "months" /\ month_i > 0 /\ Len(area_res.per_month[area_res.months[month_i]].companies) <= 1) =>
          /\ area_res.per_month[area_res.months[month_i]].fictitious_play = <<>>
          /\ area_res.per_month[area_res.months[month_i]].replicator = <<>>
          /\ area_res.per_month[area_res.months[month_i]].lemke_howson = <<>>

----------------------------------------------------------------------------
(* analyze_all_areas.  Each solver call may fail: `fails` names the calls  *)
(* that raise in one pass of the month loop ("nash" is the library call    *)
(* inside compute_lemke_howson_for_pair).  The default steps = 200 of the  *)
(* solvers is capped at StepsCap.                                          *)

StepsCap == 1
MaxFailures == 1
Solvers == {"fictitious_play", "replicator_dynamics", "nash"}

\* Mutant of TryFictitiousPlay: no try around the call.
TryFictitiousPlay_NoExcept(call, fails) ==
    IF "fictitious_play" \in fails THEN [raised |-> TRUE, value |-> <<>>] ELSE call

\* Lines 271-274: the try around fictitious_play(M); `call` is what the call
\* does when it is not made to fail.  An exception gives the empty array.
TryFictitiousPlay(call, fails) ==
    IF "fictitious_play" \in fails \/ call.raised
    THEN [raised |-> FALSE, value |-> <<>>]
    ELSE call

\* Lines 275-278: the try around replicator_dynamics(M).
TryReplicator(call, fails) ==
    IF "replicator_dynamics" \in fails \/ call.raised
    THEN [raised |-> FALSE, value |-> <<>>]
    ELSE call

\* Mutant of IfSize: the matrix is always taken for empty.
IfSize_AlwaysEmpty(M, call, empty) == empty

\* `X if M.size else empty` of lines 272, 276 and 279.
IfSize(M, call, empty) == IF Len(M) = 0 THEN empty ELSE call

EmptyArray == [raised |-> FALSE, value |-> <<>>]

\* The calls one pass makes, which are the calls that can fail in it: the two
\* dynamics when M.size > 0 (lines 272, 276), the library when N >= 2 (line 196).
CallsMade(M) ==
    (IF Len(M) > 0 THEN {"fictitious_play", "replicator_dynamics"} ELSE {})
        \cup (IF Len(M) >= 2 THEN {"nash"} ELSE {})

\* Lines 280-287.
TransitionRecord(m, M, companies, fp_list, rd_list, lh_ret) ==
    [month |-> m, payoff_matrix |-> M, companies |-> companies,
     fictitious_play |-> fp_list, replicator |-> rd_list, lemke_howson |-> lh_ret]

FirstKeys == {<<"X", "2025-01", c>> : c \in {"A", "B"}}
SecondKeys == {<<"X", "2025-02", c>> : c \in {"A", "B"}}
FirstVolumes == {50}
SecondVolumes == {40, 50, 60}
ThirdRows == { <<>>, (<<"X", "2025-03", "A">> :> 40) }
OtherAreaRows == { <<>>,
                   (<<"Y", "2025-02", "C">> :> 50),
                   (<<"Y", "2025-01", "A">> :> 0) @@ (<<"Y", "2025-03", "A">> :> 60) }

Init ==
    /\ \E first \in SUBSET FirstKeys, second \in SUBSET SecondKeys,
          third \in ThirdRows, e \in OtherAreaRows :
          \E f \in [first -> FirstVolumes], g \in [second -> SecondVolumes] :
             /\ third # <<>> => (first = FirstKeys /\ second = SecondKeys)
             /\ agg = f @@ g @@ third @@ e
    /\ pc = "areas" /\ area_i = 0 /\ month_i = 0
    /\ area_res = <<>> /\ results = <<>> /\ visited = <<>> /\ nfail = 0
    /\ bp = Idle /\ fp = Idle /\ rd = Idle /\ lh = Idle /\ ToolIdle

\* for area in areas: the months of the area, and an empty area_res (264-268)
EnterArea ==
    /\ pc = "areas" /\ area_i < Len(areas_in(agg))
    /\ LET area == areas_in(agg)[area_i + 1]
           months == months_in_area(agg, area)
       IN  /\ area_i' = area_i + 1
           /\ month_i' = 0
           /\ IF months = <<>>
              THEN pc' = "areas" /\ UNCHANGED area_res
              ELSE pc' = "months" /\ area_res' = [months |-> months, per_month |-> <<>>]
    /\ UNCHANGED <<cli, database, agg, bp, fp, rd, lh, results, visited, nfail>>

\* The rest of one pass of the month loop for month m (lines 271-287), given
\* the matrix and what each solver call returns when it does not fail.  (The
\* pass is split into operators so that each call is evaluated once.)
MonthPass(area, m, M, companies, fp_call, rd_call, lh_ok, lh_failing) ==
    \E fails \in SUBSET CallsMade(M) :
       /\ nfail + Cardinality(fails) <= MaxFailures
       /\ \E lhr \in (IF "nash" \in fails THEN lh_failing ELSE lh_ok) :
             IF TryFictitiousPlay(fp_call, fails).raised \/ TryReplicator(rd_call, fails).raised
                   \/ lhr.raised
             THEN /\ pc' = "aborted"
                  /\ UNCHANGED <<area_res, month_i, visited>>
             ELSE /\ pc' = "months"
                  /\ area_res' = [area_res EXCEPT !.per_month =
                        (m :> TransitionRecord(m, M, companies,
                                  TryFictitiousPlay(fp_call, fails).value,
                                  TryReplicator(rd_call, fails).value, lhr.ret)) @@ @]
                  /\ month_i' = month_i + 1
                  /\ visited' = Append(visited, [area |-> area, month |-> m, fails |-> fails])
       /\ nfail' = nfail + Cardinality(fails)

\* The solver calls of lines 272, 276 and 279 on the matrix built.
MonthCalls(area, m, M, companies) ==
    MonthPass(area, m, M, companies,
              IfSize(M, fictitious_play(M, StepsCap), EmptyArray),
              IfSize(M, [raised |-> FALSE,
                         value |-> replicator_dynamics(M, StepsCap, dt_default)], EmptyArray),
              IfSize(M, compute_lemke_howson_for_pair(M, companies, FALSE), {EmptyDict}),
              IfSize(M, compute_lemke_howson_for_pair(M, companies, TRUE), {EmptyDict}))

\* M, companies = build_payoff_matrix_from_observations(...) (line 270)
MonthBuilt(area, m, built) == MonthCalls(area, m, built[1], built[2])

\* One pass of the month loop (lines 269-287).
ProcessMonth ==
    /\ pc = "months" /\ month_i < Len(area_res.months)
    /\ MonthBuilt(areas_in(agg)[area_i], area_res.months[month_i + 1],
                  build_payoff_matrix_from_observations(
                      agg, areas_in(agg)[area_i], month_i, area_res.months))
    /\ UNCHANGED <<cli, database, agg, bp, fp, rd, lh, area_i, results>>

\* results[area] = area_res (line 288)
StoreArea ==
    /\ pc = "months" /\ month_i = Len(area_res.months)
    /\ results' = (areas_in(agg)[area_i] :> area_res) @@ results
    /\ pc' = "areas"
    /\ UNCHANGED <<cli, database, agg, bp, fp, rd, lh, area_i, month_i, area_res, visited, nfail>>

\* return results (line 289)
Return ==
    /\ pc = "areas" /\ area_i = Len(areas_in(agg))
    /\ pc' = "done"
    /\ UNCHANGED <<cli, database, agg, bp, fp, rd, lh, area_i, month_i, area_res, results, visited, nfail>>

Next == EnterArea \/ ProcessMonth \/ StoreArea \/ Return

Spec == Init /\ [][Next]_vars

\* The month loop has a pass to make.  A pass in which no call fails is always
\* possible, so this is when ProcessMonth is enabled.
MonthLeft == pc = "months" /\ month_i < Len(area_res.months)

\* The interpreter runs the loop on: a step that can be taken is taken.  The
\* last conjunct is WF_vars(ProcessMonth) with its enabling condition written
\* as MonthLeft.
FairSpec ==
    /\ Spec
    /\ WF_vars(EnterArea) /\ WF_vars(StoreArea) /\ WF_vars(Return)
    /\ ([]<>(~MonthLeft) \/ []<><<ProcessMonth>>_vars)

----------------------------------------------------------------------------
(* Claims about analyze_all_areas.                                         *)

\* The (area, month) pairs of the aggregates.
Pairs == {<<k[1], k[2]>> : k \in DOMAIN agg}

\* The pairs whose record has been assigned: those of the areas stored in
\* results and those of the area whose month loop is running.
Written ==
    {q \in Range(AreaOrder) \X Range(MonthOrder) :
        q[1] \in DOMAIN results /\ q[2] \in DOMAIN results[q[1]].per_month}
    \cup (IF pc \in {"months", "aborted"}
          THEN {<<areas_in(agg)[area_i], m>> : m \in DOMAIN area_res.per_month}
          ELSE {})

RecordOf(a, m) ==
    IF a \in DOMAIN results THEN results[a].per_month[m] ELSE area_res.per_month[m]

Position(order, x) == CHOOSE i \in 1..Len(order) : order[i] = x

\* (a1, m1) comes before (a2, m2): earlier area, or same area and earlier month.
Before(a1, m1, a2, m2) ==
    \/ Position(AreaOrder, a1) < Position(AreaOrder, a2)
    \/ a1 = a2 /\ Position(MonthOrder, m1) < Position(MonthOrder, m2)

\* Row r against s2 under A, and column c against s1 under the transpose of A.
RowPayoff(A, r, s2) == RAdd(RMul(A[r][1], s2[1]), RMul(A[r][2], s2[2]))
ColPayoff(A, c, s1) == RAdd(RMul(s1[1], A[c][1]), RMul(s1[2], A[c][2]))

\* No pure strategy pays a player more than one the player uses.
BestResponses(A, s1, s2) ==
    /\ IsProbabilityVector(s1, 2) /\ IsProbabilityVector(s2, 2)
    /\ \A k \in 1..2 : \A l \in 1..2 :
          s1[l] # <<0, 1>> => RLe(RowPayoff(A, k, s2), RowPayoff(A, l, s2))
    /\ \A k \in 1..2 : \A l \in 1..2 :
          s2[l] # <<0, 1>> => RLe(ColPayoff(A, k, s1), ColPayoff(A, l, s1))

\* Area X holds A = (50, 60) and B = (50, 40) over 2025-01 and 2025-02.
EndToEndTable ==
    /\ {k \in DOMAIN agg : k[1] = "X"} =
          {<<"X", m, c>> : m \in {"2025-01", "2025-02"}, c \in {"A", "B"}}
    /\ agg[<<"X", "2025-01", "A">>] = 50 /\ agg[<<"X", "2025-02", "A">>] = 60
    /\ agg[<<"X", "2025-01", "B">>] = 50 /\ agg[<<"X", "2025-02", "B">>] = 40

\* The pass for (X, 2025-02) has run, and the library did not fail in it.
SecondMonthRecorded ==
    \E k \in 1..Len(visited) :
        visited[k].area = "X" /\ visited[k].month = "2025-02" /\ "nash" \notin visited[k].fails

\* C7: with A = (50, 60) and B = (50, 40) over 2025-01 and 2025-02 in one area,
\* the record of 2025-02 has the matrix [[10, 12.5], [-12.5, -10]], its
\* equilibrium record names both A and B as players, and its equilibria hold at
\* least one pair of strategies that are best responses to each other.
C7_EndToEndExample ==
    (EndToEndTable /\ SecondMonthRecorded) =>
        LET rec == RecordOf("X", "2025-02")
        IN  /\ rec.month = "2025-02"
            /\ rec.payoff_matrix = ExampleMatrix
            /\ rec.companies = <<"A", "B">>
            /\ DOMAIN rec.lemke_howson = {"players", "matrix_pair", "equilibria"}
            /\ Range(rec.lemke_howson.players) = {"A", "B"}
            /\ \E e \in 1..Len(rec.lemke_howson.equilibria) :
                  BestResponses(rec.lemke_howson.matrix_pair,
                                rec.lemke_howson.equilibria[e][1],
                                rec.lemke_howson.equilibria[e][2])

\* The run of the example has returned with the record of 2025-02 stored.
C7_Witness ==
    /\ EndToEndTable /\ SecondMonthRecorded /\ pc = "done"
    /\ Len(results["X"].per_month["2025-02"].lemke_howson.equilibria) >= 1

\* The tables that differ from agg in one row outside area a: the row is
\* removed, added, or has another volume.
VariantVolumes == {0, 60}
VariantKeys == Range(AreaOrder) \X Range(MonthOrder) \X {"A", "B", "C"}

OtherAreaVariants(a) ==
    {[k \in DOMAIN agg \ {r} |-> agg[k]] : r \in {r \in DOMAIN agg : r[1] # a}}
    \cup {(r :> v) @@ agg : r \in {r \in VariantKeys : r[1] # a}, v \in VariantVolumes}

\* The tables that differ from agg in the volume of one row of area a in a
\* month other than m_prev and m_curr.
OtherMonthVariants(a, m_prev, m_curr) ==
    {(r :> v) @@ agg : r \in {r \in DOMAIN agg : r[1] = a /\ r[2] \notin {m_prev, m_curr}},
                       v \in VariantVolumes}

\* The months, the matrix and the companies of the record are those the
\* program computes from the table agg2 as well.
SameTransition(agg2, a, rec, mi) ==
    /\ months_in_area(agg2, a) = area_res.months
    /\ build_payoff_matrix_from_observations(agg2, a, mi, area_res.months)
          = <<rec.payoff_matrix, rec.companies>>

\* C16: the record of a pass for (area, month k) is the same for every table
\* that differs from the one analysed only in rows of other areas, and, for
\* k >= 1, for every table that differs only in volumes of months of the area
\* other than k-1 and k.
C16_TransitionsIndependent ==
    (pc = "months" /\ month_i > 0) =>
        LET a == areas_in(agg)[area_i]
            rec == area_res.per_month[area_res.months[month_i]]
        IN  /\ \A agg2 \in OtherAreaVariants(a) : SameTransition(agg2, a, rec, month_i - 1)
            /\ month_i >= 2 =>
                  \A agg2 \in OtherMonthVariants(a, area_res.months[month_i - 1],
                                                 area_res.months[month_i]) :
                      SameTransition(agg2, a, rec, month_i - 1)

\* The pass for (X, 2025-02) of a table that has a third month of X and a
\* row of area Y in 2025-02, and a nonzero matrix.
C16_Witness ==
    /\ pc = "months" /\ month_i = 2 /\ areas_in(agg)[area_i] = "X"
    /\ area_res.months = <<"2025-01", "2025-02", "2025-03">>
    /\ <<"Y", "2025-02", "C">> \in DOMAIN agg
    /\ area_res.per_month["2025-02"].payoff_matrix = ExampleMatrix

\* C17: in the record of every pass the companies are the strictly ascending
\* list of all companies with a row in any month of the area, the matrix is
\* N x N for N companies with the k-th diagonal cell the clamped share change
\* of companies[k], and the fictitious-play and replicator vectors have N
\* entries (in a pass whose dynamics did not fail).
C17_RecordAlignedWithCompanies ==
    (pc = "months" /\ month_i > 0) =>
        LET a == areas_in(agg)[area_i]
            rec == area_res.per_month[area_res.months[month_i]]
            n == Len(rec.companies)
            fails == visited[Len(visited)].fails
        IN  /\ Range(rec.companies) = {k[3] : k \in {k \in DOMAIN agg : k[1] = a}}
            /\ \A i \in 1..n : \A j \in 1..n :
                  i < j => Position(CompanyOrder, rec.companies[i])
                              < Position(CompanyOrder, rec.companies[j])
            /\ Len(rec.payoff_matrix) = n
            /\ \A i \in 1..n : Len(rec.payoff_matrix[i]) = n
            /\ "fictitious_play" \notin fails => Len(rec.fictitious_play) = n
            /\ "replicator_dynamics" \notin fails => Len(rec.replicator) = n
            /\ month_i >= 2 =>
                  \A k \in 1..n :
                      IsClamped(rec.payoff_matrix[k][k],
                                DNum(a, area_res.months[month_i - 1],
                                     area_res.months[month_i], rec.companies[k]),
                                DDen(a, area_res.months[month_i - 1], area_res.months[month_i]))

\* The pass for 2025-02 of an area in which B has a row in 2025-01 only, and
\* another area has a company the area does not have.
C17_Witness ==
    /\ pc = "months" /\ month_i = 2 /\ areas_in(agg)[area_i] = "X"
    /\ area_res.months[2] = "2025-02"
    /\ <<"X", "2025-01", "B">> \in DOMAIN agg /\ <<"X", "2025-02", "B">> \notin DOMAIN agg
    /\ <<"Y", "2025-02", "C">> \in DOMAIN agg
    /\ area_res.per_month["2025-02"].companies = <<"A", "B">>
    /\ Len(area_res.per_month["2025-02"].fictitious_play) = 2
    /\ Len(area_res.per_month["2025-02"].replicator) = 2

\* What a pass recorded agrees with what failed in it: a failed call left the
\* empty list (the two dynamics) or the error record (the library), and every
\* other call left what it returns on the matrix of the record.
RecordedAs(fails, rec, fp_value, rd_value, lh_rets) ==
    /\ rec.fictitious_play = IF "fictitious_play" \in fails THEN <<>> ELSE fp_value
    /\ rec.replicator = IF "replicator_dynamics" \in fails THEN <<>> ELSE rd_value
    /\ IF "nash" \in fails
       THEN DOMAIN rec.lemke_howson = {"error"}
       ELSE rec.lemke_howson \in lh_rets

RecordedOn(fails, rec, M) ==
    RecordedAs(fails, rec,
               fictitious_play(M, StepsCap).value,
               replicator_dynamics(M, StepsCap, dt_default),
               {o.ret : o \in compute_lemke_howson_for_pair(M, rec.companies, FALSE)})

PassRecorded(k) ==
    /\ <<visited[k].area, visited[k].month>> \in Written
    /\ RecordedOn(visited[k].fails, RecordOf(visited[k].area, visited[k].month),
                  RecordOf(visited[k].area, visited[k].month).payoff_matrix)

\* A step that makes a pass records it as RecordedOn says.
\* The run is not aborted, and the pass the month loop has just made is
\* recorded as RecordedOn says.
C8_NoAbort ==
    /\ pc # "aborted"
    /\ (pc = "months" /\ month_i > 0) => PassRecorded(Len(visited))

AllProcessed ==
    /\ pc = "done"
    /\ {<<visited[k].area, visited[k].month>> : k \in 1..Len(visited)} = Pairs
    /\ Written = Pairs

\* C8: no failure of a solver call aborts the run: the failed call's output is
\* recorded as empty (the dynamics) or as an error record (the bimatrix
\* solver), the other calls of the same pass are recorded as they return, and
\* the run goes on to return with every (area, month) pair processed.
C8_SolverFailureDoesNotAbort ==
    []C8_NoAbort /\ <>AllProcessed

\* A returned run in which a call failed in a pass that was neither the last
\* of its area nor of the last area.
C8_Witness ==
    /\ pc = "done"
    /\ \E k \in 1..Len(visited) :
          /\ visited[k].fails # {}
          /\ \E l \in 1..Len(visited) :
                l > k /\ visited[l].area = visited[k].area
          /\ \E l \in 1..Len(visited) :
                l > k /\ visited[l].area # visited[k].area

C9_Order ==
    /\ \A k \in 1..Len(visited) : \A l \in 1..Len(visited) :
          k < l => Before(visited[k].area, visited[k].month,
                          visited[l].area, visited[l].month)
    /\ {<<visited[k].area, visited[k].month>> : k \in 1..Len(visited)} = Written
    /\ Written \subseteq Pairs
    /\ \A q \in Written : RecordOf(q[1], q[2]).month = q[2]
    /\ pc = "done" =>
          /\ Written = Pairs
          /\ DOMAIN results = {q[1] : q \in Pairs}
          /\ \A a \in DOMAIN results :
                /\ DOMAIN results[a].per_month = {q[2] : q \in {q \in Pairs : q[1] = a}}
                /\ results[a].months = months_in_area(agg, a)

C9_WriteOnce ==
    \A q \in Written :
        /\ q \in Written'
        /\ RecordOf(q[1], q[2])' = RecordOf(q[1], q[2])

\* C9: the areas are visited in sorted order and the months of an area in
\* ascending order; a record is written once per visited pair and never
\* changes afterwards; and when the run returns the result holds one record
\* for each (area, month) pair of the aggregates and for no other pair.
C9_OneRecordPerPairInOrder == []C9_Order /\ [][C9_WriteOnce]_vars

\* A returned run over two areas, one of them with two months.
C9_Witness ==
    /\ pc = "done"
    /\ Len(visited) >= 3
    /\ Cardinality(DOMAIN results) = 2
    /\ Cardinality(Pairs) = Len(visited)

----------------------------------------------------------------------------
(* Further claims about the solvers on degenerate and special matrices.    *)

\* C21: on a matrix with N <= 1 fictitious_play does not raise and
\* returns the vector [1.0] when N = 1 and the empty vector when N = 0.
C21_DegenerateReturnsOneOrEmpty ==
    (fp.pc # "idle" /\ Len(fp.game_matrix) <= 1) =>
        /\ fp.pc # "raised"
        /\ fp.pc = "returned" =>
              fp.opp_belief = IF Len(fp.game_matrix) = 1 THEN << <<1, 1>> >> ELSE <<>>

\* The counters of a run: t passes made of the `steps` asked for, one count
\* added by each pass of fictitious_play; a run that returned made them all,
\* and a run of no pass returns the uniform vector it started with.
C22_Counted ==
    /\ (fp.pc \in {"loop", "returned"} /\ Len(fp.game_matrix) >= 1) =>
          /\ fp.t <= fp.steps
          /\ SumInts(fp.cum_counts) = fp.t
          /\ fp.pc = "returned" => fp.t = fp.steps
          /\ (fp.pc = "returned" /\ fp.steps = 0) =>
                \A i \in 1..Len(fp.game_matrix) :
                    fp.opp_belief[i] = <<1, Len(fp.game_matrix)>>
    /\ rd.pc \in {"loop", "returned"} =>
          /\ rd.t <= rd.steps
          /\ Len(rd.p) = Len(rd.payoff_matrix)
          /\ rd.pc = "returned" => rd.t = rd.steps
          /\ (rd.pc = "returned" /\ rd.steps = 0) =>
                \A i \in 1..Len(rd.payoff_matrix) : rd.p[i] = <<1, Len(rd.payoff_matrix)>>

\* A step of a run is one pass, taken while passes are left, or the return,
\* taken when none is left and handing back the vector of the last pass.
C22_OnePass ==
    /\ (fp.pc = "loop" /\ Len(fp.game_matrix) >= 1 /\ fp' # fp) =>
          \/ fp.t < fp.steps /\ fp'.pc = "loop" /\ fp'.t = fp.t + 1
          \/ fp.t = fp.steps /\ fp'.pc = "returned" /\ fp'.t = fp.t
                /\ fp'.opp_belief = fp.opp_belief
    /\ (rd.pc = "loop" /\ rd' # rd) =>
          \/ rd.t < rd.steps /\ rd'.pc = "loop" /\ rd'.t = rd.t + 1
          \/ rd.t = rd.steps /\ rd'.pc = "returned" /\ rd'.t = rd.t /\ rd'.p = rd.p

C22_Returned ==
    /\ fp.pc \in {"idle", "returned"} \/ Len(fp.game_matrix) = 0
    /\ rd.pc \in {"idle", "returned"}

C23_SumStaysPositive ==
    (rd.pc # "idle" /\ Len(rd.payoff_matrix) >= 1) =>
        \A k \in 1..Len(rd.sums) :
            /\ rd.sums[k][1] >= rd.sums[k][2]
            /\ rd.sums[k][1] > 0

\* One pass with a step size other than 0.01 in which an entry of the update
\* was negative and clipped to zero, so the sum grew beyond 1.
C23_Witness ==
    /\ rd.pc = "body_done" /\ rd.dt # dt_default
    /\ rd.sums[1][1] > rd.sums[1][2]
    /\ \E i \in 1..Len(rd.p) : rd.p0[i] # <<0, 1>> /\ rd.p[i] = <<0, 1>>

\* C23: the sum of p after the update and the clipping is never <= 0, for
\* any matrix and any dt.
C23_SumNeverNonPositive ==
    rd.pc # "idle" => \A k \in 1..Len(rd.sums) : rd.sums[k][1] > 0

----------------------------------------------------------------------------
(* Claims about the solvers on the builder's matrix.  The share changes    *)
(* are read from the table by DNum and DDen.                               *)

\* The share change of the i-th company of the call, times DDen.
ChangeOf(i) == DNum(bp.trading_area, PrevMonth, CurrMonth, bp.companies[i])

\* No cell of the matrix was changed by the clamp: every d_i and every
\* d_i - 0.25 * d_j lies in [-50, 50].
NoCellClamped ==
    LET den == DDen(bp.trading_area, PrevMonth, CurrMonth)
        n == Len(bp.companies)
    IN  \A i \in 1..n : \A j \in 1..n :
            IF i = j THEN -50 * den <= ChangeOf(i) /\ ChangeOf(i) <= 50 * den
            ELSE /\ -200 * den <= 4 * ChangeOf(i) - ChangeOf(j)
                 /\ 4 * ChangeOf(i) - ChangeOf(j) <= 200 * den

\* k is the lowest index with the largest share change.
LargestChange(k) ==
    /\ \A i \in 1..Len(bp.companies) : ChangeOf(i) <= ChangeOf(k)
    /\ \A i \in 1..(k - 1) : ChangeOf(i) < ChangeOf(k)

\* C25: on a matrix of the builder in which no cell is clamped and the
\* largest share change is strictly positive, every iteration of
\* fictitious_play selects row k, the lowest index with the largest share
\* change: after t iterations the counts are t on k and 0 elsewhere, and a
\* run of steps >= 1 returns the one-hot vector on k.
C25_SameRowEveryIteration ==
    (BuiltLate /\ fp.pc \in {"loop", "returned"} /\ NoCellClamped) =>
        \A k \in 1..Len(bp.companies) :
            (LargestChange(k) /\ ChangeOf(k) > 0) =>
                /\ \A i \in 1..Len(bp.companies) :
                      fp.cum_counts[i] = IF i = k THEN fp.t ELSE 0
                /\ fp.t >= 1 =>
                      \A i \in 1..Len(bp.companies) :
                          fp.opp_belief[i] = IF i = k THEN <<1, 1>> ELSE <<0, 1>>
                /\ fp.pc = "returned" => fp.t = fp.steps /\ fp.steps >= 1

\* A returned run of MaxSteps iterations on a matrix of three companies, none
\* of its cells clamped, whose largest share change is the third company's.
C25_Witness ==
    /\ BuiltLate /\ fp.pc = "returned" /\ fp.steps = MaxSteps
    /\ NoCellClamped
    /\ Len(bp.companies) = 3 /\ LargestChange(3) /\ ChangeOf(3) > 0
    /\ ChangeOf(1) # ChangeOf(2)
    /\ fp.cum_counts = <<0, 0, MaxSteps>>

\* The share change of the i-th company as the fraction Change(i) / ChangeDen;
\* a call for the first month compares nothing, and every change is 0.
Change(i) == IF bp.month_index = 0 THEN 0 ELSE ChangeOf(i)
ChangeDen == IF bp.month_index = 0 THEN 1 ELSE DDen(bp.trading_area, PrevMonth, CurrMonth)

\* The cell <<n, d>> is the fraction num / den.
IsFraction(cell, num, den) == cell[1] * den = num * cell[2]

\* 4 * ChangeDen times the cell (r, c) of A = [[a, a - 0.25 b], [b - 0.25 a, b]]
\* for the share changes a and b of the focal companies.
FocalPayoff(r, c) ==
    LET own == Change(lh.focal[r])
        opp == Change(lh.focal[c])
    IN  IF r = c THEN 4 * own ELSE 4 * own - opp

\* (r, c) is a pure equilibrium of (A, transpose of A): row r is a best reply
\* to column c under A, and column c to row r under the transpose.
PureEquilibrium(r, c) ==
    /\ FocalPayoff(r, c) >= FocalPayoff(3 - r, c)
    /\ FocalPayoff(c, r) >= FocalPayoff(3 - c, r)

OneHot(k) == [i \in 1..2 |-> IF i = k THEN <<1, 1>> ELSE <<0, 1>>]

SolvedOnBuilt ==
    /\ bp.pc = "returned" /\ Len(bp.companies) >= 2
    /\ lh.pc = "returned" /\ "equilibria" \in DOMAIN lh.ret
    /\ bp.month_index >= 1 => NoCellClamped

\* C26: for a matrix of the builder with N >= 2 and no cell clamped, the
\* game solved is (A, transpose of A) with A = [[a, a - 0.25 b],
\* [b - 0.25 a, b]], a and b the share changes of the focal companies, and
\* the equilibria of the record hold at least one pair of pure strategies
\* that is an equilibrium of that game: the list is never empty.
C26_PureEquilibriumExists ==
    SolvedOnBuilt =>
        /\ \A r \in 1..2 : \A c \in 1..2 :
              IsFraction(lh.ret.matrix_pair[r][c], FocalPayoff(r, c), 4 * ChangeDen)
        /\ Len(lh.ret.equilibria) >= 1
        /\ \E e \in 1..Len(lh.ret.equilibria) : \E r \in 1..2 : \E c \in 1..2 :
              /\ lh.ret.equilibria[e] = <<OneHot(r), OneHot(c)>>
              /\ PureEquilibrium(r, c)

\* A record for two focal companies that both lost share: neither (1, 1) nor
\* (2, 2) is an equilibrium, the pure equilibria are (1, 2) and (2, 1).
C26_Witness ==
    /\ SolvedOnBuilt /\ bp.month_index >= 1
    /\ Change(lh.focal[1]) < 0 /\ Change(lh.focal[2]) < 0
    /\ ~PureEquilibrium(1, 1) /\ ~PureEquilibrium(2, 2)
    /\ \E e \in 1..Len(lh.ret.equilibria) :
          lh.ret.equilibria[e] = <<OneHot(1), OneHot(2)>>

----------------------------------------------------------------------------
(* Further claims about the builder.                                       *)

\* The diagonal of the returned matrix.
DiagOf(M) == [i \in 1..Len(M) |-> M[i][i]]

\* No diagonal cell was changed by the clamp.
DiagUnclamped ==
    \A i \in 1..Len(bp.companies) :
        /\ -50 * DDen(bp.trading_area, PrevMonth, CurrMonth) <= ChangeOf(i)
        /\ ChangeOf(i) <= 50 * DDen(bp.trading_area, PrevMonth, CurrMonth)

----------------------------------------------------------------------------
(* Further claims about the dynamics and the focal pair.                   *)

AllZero(M) == \A i \in 1..Len(M) : \A j \in 1..Len(M[i]) : M[i][j] = <<0, 1>>

\* C28: on the all-zero N x N matrix with N >= 1, fictitious_play counts
\* the first row in every iteration and with steps >= 1 returns the one-hot
\* vector on it, and replicator_dynamics holds after every iteration, and
\* returns, the vector with every entry 1/N.
C28_ZeroMatrixOutputs ==
    /\ (fp.pc \in {"loop", "returned"} /\ Len(fp.game_matrix) >= 1 /\ AllZero(fp.game_matrix)) =>
          /\ \A i \in 1..Len(fp.game_matrix) :
                fp.cum_counts[i] = IF i = 1 THEN fp.t ELSE 0
          /\ fp.t >= 1 =>
                \A i \in 1..Len(fp.game_matrix) :
                    fp.opp_belief[i] = IF i = 1 THEN <<1, 1>> ELSE <<0, 1>>
          /\ fp.pc = "returned" => fp.t = fp.steps
    /\ (rd.pc \in {"loop", "returned"} /\ Len(rd.payoff_matrix) >= 1 /\ AllZero(rd.payoff_matrix)) =>
          /\ Len(rd.p) = Len(rd.payoff_matrix)
          /\ \A i \in 1..Len(rd.payoff_matrix) : rd.p[i] = <<1, Len(rd.payoff_matrix)>>
          /\ rd.pc = "returned" => rd.t = rd.steps

\* A returned run of fictitious_play of MaxSteps iterations on the all-zero
\* matrix of MaxN rows.
C28_Witness ==
    /\ fp.pc = "returned" /\ fp.steps = MaxSteps
    /\ Len(fp.game_matrix) = MaxN /\ AllZero(fp.game_matrix)
    /\ fp.opp_belief[1] = <<1, 1>> /\ fp.opp_belief[MaxN] = <<0, 1>>

\* C29: for every N x N matrix with N >= 2, diagonals of equal magnitude
\* included, the two focal indices are distinct indices of the matrix, and
\* the players of the record are two different companies of the list.
C29_FocalPairDistinct ==
    (lh.pc \in {"returned", "raised"} /\ Len(lh.payoff_matrix) >= 2) =>
        /\ Len(lh.focal) = 2
        /\ lh.focal[1] \in 1..Len(lh.payoff_matrix)
        /\ lh.focal[2] \in 1..Len(lh.payoff_matrix)
        /\ lh.focal[1] # lh.focal[2]
        /\ "players" \in DOMAIN lh.ret =>
              /\ lh.ret.players[1] # lh.ret.players[2]
              /\ {lh.ret.players[1], lh.ret.players[2]} \subseteq Range(lh.companies)

\* A record on the all-zero matrix of two rows, whose diagonal entries tie.
C29_Witness ==
    /\ lh.pc = "returned" /\ Len(lh.payoff_matrix) = 2 /\ AllZero(lh.payoff_matrix)
    /\ "players" \in DOMAIN lh.ret
    /\ Range(lh.ret.players) = {"A", "B"}

----------------------------------------------------------------------------
(* binary64, the float of numpy.  A natural number of any size is a        *)
(* sequence of limbs, least significant first, without leading zero limbs. *)
(* A float is [sign, m, e] with the value sign * m * 2^e: m has            *)
(* Precision bits, or fewer when e = MinExponent (a subnormal), and zero   *)
(* is [sign |-> 1, m |-> <<>>, e |-> 0].  Results are rounded to nearest,  *)
(* ties to even.  The sign of a zero is not kept, and no value of the      *)
(* runs below is large enough to overflow.                                 *)

LimbBits == 15
LimbBase == 32768
Precision == 53
MinExponent == -1074

RECURSIVE Pow2(_)
Pow2(k) == IF k = 0 THEN 1 ELSE 2 * Pow2(k - 1)

RECURSIVE IntBitLen(_)
IntBitLen(x) == IF x = 0 THEN 0 ELSE 1 + IntBitLen(x \div 2)

RECURSIVE BigTrim(_)
BigTrim(a) ==
    IF a # <<>> /\ a[Len(a)] = 0 THEN BigTrim(SubSeq(a, 1, Len(a) - 1)) ELSE a

RECURSIVE BigOfInt(_)
BigOfInt(i) == IF i = 0 THEN <<>> ELSE <<i % LimbBase>> \o BigOfInt(i \div LimbBase)

Limb(a, k) == IF k <= Len(a) THEN a[k] ELSE 0

RECURSIVE BigAddFrom(_, _, _, _)
BigAddFrom(a, b, k, carry) ==
    IF k > Len(a) /\ k > Len(b)
    THEN (IF carry = 0 THEN <<>> ELSE <<carry>>)
    ELSE LET x == Limb(a, k) + Limb(b, k) + carry
         IN  <<x % LimbBase>> \o BigAddFrom(a, b, k + 1, x \div LimbBase)

BigAdd(a, b) == BigAddFrom(a, b, 1, 0)

\* a - b for a >= b
RECURSIVE BigSubFrom(_, _, _, _)
BigSubFrom(a, b, k, borrow) ==
    IF k > Len(a) THEN <<>>
    ELSE LET x == a[k] - Limb(b, k) - borrow
         IN  IF x < 0 THEN <<x + LimbBase>> \o BigSubFrom(a, b, k + 1, 1)
             ELSE <<x>> \o BigSubFrom(a, b, k + 1, 0)

BigSub(a, b) == BigTrim(BigSubFrom(a, b, 1, 0))

\* -1, 0 or 1 as a < b, a = b or a > b
RECURSIVE BigCmpAt(_, _, _)
BigCmpAt(a, b, k) ==
    IF k = 0 THEN 0
    ELSE IF a[k] < b[k] THEN -1
    ELSE IF a[k] > b[k] THEN 1
    ELSE BigCmpAt(a, b, k - 1)

BigCmp(a, b) ==
    IF Len(a) < Len(b) THEN -1
    ELSE IF Len(a) > Len(b) THEN 1
    ELSE BigCmpAt(a, b, Len(a))

\* a * m for 0 <= m < LimbBase
RECURSIVE BigMulSmallFrom(_, _, _, _)
BigMulSmallFrom(a, m, k, carry) ==
    IF k > Len(a) THEN (IF carry = 0 THEN <<>> ELSE <<carry>>)
    ELSE LET x == a[k] * m + carry
         IN  <<x % LimbBase>> \o BigMulSmallFrom(a, m, k + 1, x \div LimbBase)

BigMulSmall(a, m) == BigTrim(BigMulSmallFrom(a, m, 1, 0))

RECURSIVE BigMul(_, _)
BigMul(a, b) ==
    IF a = <<>> \/ b = <<>> THEN <<>>
    ELSE LET rest == BigMul(a, Tail(b))
         IN  BigAdd(BigMulSmall(a, b[1]), IF rest = <<>> THEN <<>> ELSE <<0>> \o rest)

\* a * 2^s
BigShl(a, s) ==
    IF a = <<>> THEN <<>>
    ELSE [k \in 1..(s \div LimbBits) |-> 0] \o BigMulSmall(a, Pow2(s % LimbBits))

\* a \div 2^s
BigShr(a, s) ==
    LET drop == s \div LimbBits
        bits == s % LimbBits
        high == SubSeq(a, drop + 1, Len(a))
    IN  BigTrim([k \in 1..Len(high) |->
                    (high[k] \div Pow2(bits))
                        + (Limb(high, k + 1) % Pow2(bits)) * Pow2(LimbBits - bits)])

\* bit i of a, bit 0 the lowest
BigBit(a, i) == (Limb(a, (i \div LimbBits) + 1) \div Pow2(i % LimbBits)) % 2

\* whether one of the n lowest bits of a is set
BigLowBits(a, n) ==
    \/ \E k \in 1..(n \div LimbBits) : Limb(a, k) # 0
    \/ Limb(a, (n \div LimbBits) + 1) % Pow2(n % LimbBits) # 0

BigBitLen(a) ==
    IF a = <<>> THEN 0 ELSE LimbBits * (Len(a) - 1) + IntBitLen(a[Len(a)])

\* The largest digit d in lo..hi with d * b <= r, where lo * b <= r.
RECURSIVE BigDigit(_, _, _, _)
BigDigit(r, b, lo, hi) ==
    IF lo = hi THEN lo
    ELSE LET mid == (lo + hi + 1) \div 2
         IN  IF BigCmp(BigMulSmall(b, mid), r) <= 0
             THEN BigDigit(r, b, mid, hi)
             ELSE BigDigit(r, b, lo, mid - 1)

\* Long division, limb by limb from the top of a: <<quotient, remainder>>
\* once the limbs k, ..., 1 of a have been brought down.
RECURSIVE BigDivModFrom(_, _, _, _, _)
BigDivModFrom(a, b, k, q, r) ==
    IF k = 0 THEN <<BigTrim(q), r>>
    ELSE LET r2 == BigTrim(<<a[k]>> \o r)
             d == BigDigit(r2, b, 0, LimbBase - 1)
             r3 == BigSub(r2, BigMulSmall(b, d))
         IN  IF Len(r3) >= 0
             THEN BigDivModFrom(a, b, k - 1, <<d>> \o q, r3)
             ELSE <<>>

\* a \div b and a % b for b # 0
BigDivMod(a, b) == BigDivModFrom(a, b, Len(a), <<>>, <<>>)

F64Zero == [sign |-> 1, m |-> <<>>, e |-> 0]

IntMax(x, y) == IF x >= y THEN x ELSE y
IntMin(x, y) == IF x <= y THEN x ELSE y

\* The float nearest to sign * n * 2^e, ties to even.
F64Round(sign, n, e) ==
    IF n = <<>> THEN F64Zero
    ELSE LET len == BigBitLen(n)
             s == IntMax(len - Precision, MinExponent - e)
         IN  IF s <= 0
             THEN LET t == IntMin(Precision - len, e - MinExponent)
                  IN  [sign |-> sign, m |-> BigShl(n, t), e |-> e - t]
             ELSE LET q == BigShr(n, s)
                      up == /\ BigBit(n, s - 1) = 1
                            /\ BigLowBits(n, s - 1) \/ BigBit(q, 0) = 1
                      m == IF up THEN BigAdd(q, <<1>>) ELSE q
                  IN  IF m = <<>> THEN F64Zero
                      ELSE IF BigBitLen(m) > Precision
                      THEN [sign |-> sign, m |-> BigShr(m, 1), e |-> e + s + 1]
                      ELSE [sign |-> sign, m |-> m, e |-> e + s]

F64OfInt(i) == F64Round(IF i < 0 THEN -1 ELSE 1, BigOfInt(AbsInt(i)), 0)

F64Neg(x) == IF x.m = <<>> THEN x ELSE [x EXCEPT !.sign = -x.sign]

F64Mul(x, y) ==
    IF x.m = <<>> \/ y.m = <<>> THEN F64Zero
    ELSE F64Round(x.sign * y.sign, BigMul(x.m, y.m), x.e + y.e)

\* x + y.  A term that lies wholly below a quarter of the last bit of the
\* other does not change the rounded sum.
F64Add(x, y) ==
    IF x.m = <<>> THEN y
    ELSE IF y.m = <<>> THEN x
    ELSE IF y.e + BigBitLen(y.m) <= x.e - 2 THEN x
    ELSE IF x.e + BigBitLen(x.m) <= y.e - 2 THEN y
    ELSE LET e == IntMin(x.e, y.e)
             a == BigShl(x.m, x.e - e)
             b == BigShl(y.m, y.e - e)
             c == BigCmp(a, b)
         IN  IF x.sign = y.sign THEN F64Round(x.sign, BigAdd(a, b), e)
             ELSE IF c = 0 THEN F64Zero
             ELSE IF c > 0 THEN F64Round(x.sign, BigSub(a, b), e)
             ELSE F64Round(y.sign, BigSub(b, a), e)

F64Sub(x, y) == F64Add(x, F64Neg(y))

\* x / y for y # 0: the quotient to Precision + 3 bits or more, and one bit
\* below them for a remainder that is not zero.
F64Div(x, y) ==
    IF x.m = <<>> THEN F64Zero
    ELSE LET k == IntMax(0, Precision + 3 + BigBitLen(y.m) - BigBitLen(x.m))
             qr == BigDivMod(BigShl(x.m, k), y.m)
             n == BigAdd(BigShl(qr[1], 1), IF qr[2] = <<>> THEN <<>> ELSE <<1>>)
         IN  F64Round(x.sign * y.sign, n, x.e - y.e - k - 1)

\* x <= 0
F64NotPositive(x) == x.m = <<>> \/ x.sign < 0

\* x > 0
F64Positive(x) == x.m # <<>> /\ x.sign > 0

----------------------------------------------------------------------------
(* replicator_dynamics in binary64, as numpy runs it: every product, sum   *)
(* and quotient is rounded.  The sums of a dot product are taken from left *)
(* to right.                                                               *)

\* steps: int = 200 (line 235)
steps_default == 200

\* dt: float = 0.01 (line 235), the float nearest to 1/100
F64dt_default == F64Div(F64OfInt(1), F64OfInt(100))

\* np.ones(n) / n
F64Uniform(n) == Vec([i \in 1..n |-> F64Div(F64OfInt(1), F64OfInt(n))])

RECURSIVE F64SumFrom(_, _, _)
F64SumFrom(v, k, acc) ==
    IF k > Len(v) THEN acc ELSE F64SumFrom(v, k + 1, F64Add(acc, v[k]))

\* v.sum()
F64Sum(v) == F64SumFrom(v, 1, F64Zero)

\* a.dot(b)
F64Dot(a, b) == F64Sum(Vec([k \in 1..Len(a) |-> F64Mul(a[k], b[k])]))

\* payoff_matrix.dot(p)
F64MatVec(M, v) == Vec([i \in 1..Len(M) |-> F64Dot(M[i], v)])

\* p + dt * p * (payoffs - avg) (lines 243-245)
F64EulerUpdate(payoff_matrix, p, dt) ==
    LET payoffs == F64MatVec(payoff_matrix, p)
        avg == F64Dot(p, payoffs)
    IN  Vec([i \in 1..Len(p) |->
                F64Add(p[i], F64Mul(F64Mul(dt, p[i]), F64Sub(payoffs[i], avg)))])

\* np.maximum(p, 0)
F64ClipNegative(p) == Vec([i \in 1..Len(p) |-> IF p[i].sign < 0 THEN F64Zero ELSE p[i]])

\* lines 248-252
F64Renormalise(p) ==
    LET s == F64Sum(p)
    IN  IF F64NotPositive(s) THEN F64Uniform(Len(p))
        ELSE Vec([i \in 1..Len(p) |-> F64Div(p[i], s)])

\* One pass of the loop (lines 243-252).
F64RDIterate(payoff_matrix, p, dt) ==
    F64Renormalise(F64ClipNegative(F64EulerUpdate(payoff_matrix, p, dt)))

\* A matrix of whole numbers as an array of floats.
F64Matrix(M) == Vec([i \in 1..Len(M) |-> Vec([j \in 1..Len(M) |-> F64OfInt(M[i][j])])])

\* Builder outputs with every cell at the cap or at zero: one company takes
\* the whole market from another (two and three companies), and no change.
CappedMatrices ==
    { << <<-50, -50>>, <<50, 50>> >>,
      << <<-50, -50, -50>>, <<50, 50, 50>>, <<0, 0, 0>> >>,
      << <<0, 0>>, <<0, 0>> >> }

\* Cells within the cap of the builder, and one beyond it.
BandCells == {<<-50, 1>>, <<0, 1>>, <<25, 2>>, <<50, 1>>}
BandMatrices(n) ==
    IF n <= 2 THEN [1..n -> [1..n -> BandCells \cup {<<-400, 1>>}]]
    ELSE [1..n -> [1..n -> {<<-50, 1>>, <<50, 1>>}]]

\* Runs and single passes in exact arithmetic on the matrices of
\* BandMatrices, and runs of the default length in binary64 on the matrices
\* of CappedMatrices.  `updated` is a history of p before the clipping of
\* the last pass.
InitRDArith ==
    /\ \/ \E n \in 1..MaxN : \E M \in BandMatrices(n) : \E steps \in RDStepChoices :
             rd = [pc |-> "loop", payoff_matrix |-> M, steps |-> steps, dt |-> dt_default,
                   t |-> 0, p |-> Uniform(n), sums |-> <<>>]
       \/ \E n \in 1..MaxN : \E M \in BandMatrices(n) : \E p \in Distributions(n) :
             \E dt \in DtChoices :
                rd = [pc |-> "body", payoff_matrix |-> M, dt |-> dt, p0 |-> p, p |-> p,
                      sums |-> <<>>]
       \/ \E M \in CappedMatrices :
             rd = [pc |-> "loop64", payoff_matrix |-> F64Matrix(M), steps |-> steps_default,
                   dt |-> F64dt_default, t |-> 0, p |-> F64Uniform(Len(M)),
                   updated |-> <<>>]
    /\ BuildIdle /\ fp = Idle /\ lh = Idle /\ OrchIdle /\ ToolIdle

\* for _ in range(steps): one pass, in binary64
RDStep64 ==
    /\ rd.pc = "loop64" /\ rd.t < rd.steps
    /\ rd' = [rd EXCEPT !.t = @ + 1,
                         !.p = F64RDIterate(rd.payoff_matrix, rd.p, rd.dt),
                         !.updated = F64EulerUpdate(rd.payoff_matrix, rd.p, rd.dt)]
    /\ UNCHANGED <<cli, database, agg, bp, fp, lh, pc, area_i, month_i, area_res, results, visited, nfail>>

\* return p
RDReturn64 ==
    /\ rd.pc = "loop64" /\ rd.t = rd.steps
    /\ rd' = [rd EXCEPT !.pc = "returned64"]
    /\ UNCHANGED <<cli, database, agg, bp, fp, lh, pc, area_i, month_i, area_res, results, visited, nfail>>

NextRDArith == RDStep \/ RDReturn \/ RDBody \/ RDStep64 \/ RDReturn64

SpecRDArith == InitRDArith /\ [][NextRDArith]_vars

----------------------------------------------------------------------------
(* The text-to-SQL tool (src/backend/text_to_sql_ollama.py).               *)
(*                                                                         *)
(* A text is a sequence of tokens.  A token is a maximal run of word       *)
(* characters (a word), one whitespace string, one punctuation character   *)
(* or one of the markers the tool's regular expressions look for.  The     *)
(* sample texts never put two words next to each other, so every word      *)
(* token has a word boundary (\b) on both sides.                           *)

SP == " "
NL == "\n"
BlankLine == "\n\n"
ThinkOpen == "<think>"
ThinkClose == "</think>"
\* The markdown fences: three backquotes, with and without the word sql.
FenceSql == "<fence>sql"
Fence == "<fence>"

\* \s of the regular expressions.
Whitespace == {SP, NL, BlankLine}

\* str.upper on the words of the samples; re.I compares words this way.
Upper(w) ==
    CASE w = "select" -> "SELECT" [] w = "from" -> "FROM" [] w = "drop" -> "DROP"
      [] w = "delete" -> "DELETE" [] w = "where" -> "WHERE" [] w = "order" -> "ORDER"
      [] w = "by" -> "BY" [] w = "desc" -> "DESC" [] w = "asc" -> "ASC"
      [] w = "limit" -> "LIMIT" [] w = "pragma" -> "PRAGMA" [] w = "table" -> "TABLE"
      [] OTHER -> w

\* Optional[str]: None, or one text.
None == <<>>
Some(txt) == <<txt>>

DISALLOWED_WORDS ==
    {"INSERT", "UPDATE", "DELETE", "DROP", "CREATE", "ALTER", "ATTACH", "DETACH",
     "REPLACE", "TRUNCATE", "VACUUM", "PRAGMA"}

\* DISALLOWED.search(sql): one of the keywords stands in the text as a word.
DISALLOWED(sql) == \E i \in 1..Len(sql) : Upper(sql[i]) \in DISALLOWED_WORDS

RECURSIVE LStrip(_)
LStrip(txt) ==
    IF txt # <<>> /\ Head(txt) \in Whitespace THEN LStrip(Tail(txt)) ELSE txt

RECURSIVE RStrip(_)
RStrip(txt) ==
    IF txt # <<>> /\ txt[Len(txt)] \in Whitespace
    THEN RStrip(SubSeq(txt, 1, Len(txt) - 1)) ELSE txt

\* str.strip()
Strip(txt) == RStrip(LStrip(txt))

\* str.rstrip(';')
RECURSIVE RStripSemicolons(_)
RStripSemicolons(txt) ==
    IF txt # <<>> /\ txt[Len(txt)] = ";"
    THEN RStripSemicolons(SubSeq(txt, 1, Len(txt) - 1)) ELSE txt

\* re.match(r'^\s*SELECT\b', sql, re.I)
StartsWithSelect(sql) == LStrip(sql) # <<>> /\ Upper(Head(LStrip(sql))) = "SELECT"

\* The mutant of execute_sql: the start of the text is tested, the keywords
\* are not.
execute_sql_SelectOnly(db, sql) ==
    IF ~StartsWithSelect(sql)
    THEN [raised |-> TRUE, db |-> db]
    ELSE [raised |-> FALSE, db |-> Append(db, [via |-> "execute_sql", sql |-> sql])]

\* execute_sql: both tests come before the engine is created; a text that
\* passes them is read by pandas.read_sql.
execute_sql(db, sql) ==
    IF ~StartsWithSelect(sql)
    THEN [raised |-> TRUE, db |-> db]
    ELSE IF DISALLOWED(sql)
    THEN [raised |-> TRUE, db |-> db]
    ELSE [raised |-> FALSE, db |-> Append(db, [via |-> "execute_sql", sql |-> sql])]

\* The tables sqlite_master lists.
Tables == <<"stations", "areas">>

TableInfo(t) ==
    [via |-> "introspect_schema", sql |-> <<"PRAGMA", SP, "table_info", "(", t, ")">>]

\* introspect_schema: the table names, then one PRAGMA for each table, sent
\* through the sqlite3 cursor.
introspect_schema(db) ==
    db \o << [via |-> "introspect_schema",
              sql |-> <<"SELECT", SP, "name", SP, "FROM", SP, "sqlite_master">>] >>
       \o [k \in 1..Len(Tables) |-> TableInfo(Tables[k])]

\* re.sub(r'<think>.*?</think>', '', txt): each opened span up to the first
\* closing tag goes; an unclosed opening tag stays.
RECURSIVE StripThink(_)
StripThink(txt) ==
    IF txt = <<>> THEN <<>>
    ELSE IF Head(txt) = ThinkOpen /\ \E k \in 2..Len(txt) : txt[k] = ThinkClose
    THEN LET k == CHOOSE k \in 2..Len(txt) :
                     /\ txt[k] = ThinkClose
                     /\ \A j \in 2..(k - 1) : txt[j] # ThinkClose
         IN  StripThink(SubSeq(txt, k + 1, Len(txt)))
    ELSE <<Head(txt)>> \o StripThink(Tail(txt))

\* The two removals of the fences in step 2 of extract_sql.
StripFences(txt) == SelectSeq(txt, LAMBDA tok : tok \notin {FenceSql, Fence})

\* One match of (select\b.*?from\b.*?)(?=(?:\n\s*\n|$)) from position pos
\* on: the first select, the first from after it, and then up to the first
\* blank line or the end.  <<>> when there is none.
ChunkFrom(txt, pos) ==
    LET sels == {i \in pos..Len(txt) :
                    /\ Upper(txt[i]) = "SELECT"
                    /\ \E j \in (i + 1)..Len(txt) : Upper(txt[j]) = "FROM"}
    IN  IF sels = {} THEN <<>>
        ELSE LET i == CHOOSE i \in sels : \A k \in sels : i <= k
                 j == CHOOSE j \in (i + 1)..Len(txt) :
                         /\ Upper(txt[j]) = "FROM"
                         /\ \A k \in (i + 1)..(j - 1) : Upper(txt[k]) # "FROM"
                 e == CHOOSE e \in j..Len(txt) :
                         /\ e = Len(txt) \/ txt[e + 1] = BlankLine
                         /\ \A k \in j..(e - 1) : txt[k + 1] # BlankLine
             IN  <<i, e>>

\* re.finditer: the matches from left to right, each stripped and without
\* its trailing semicolons.
RECURSIVE Candidates(_, _)
Candidates(txt, pos) ==
    LET m == ChunkFrom(txt, pos)
    IN  IF m = <<>> THEN <<>>
        ELSE <<Strip(RStripSemicolons(RStrip(Strip(SubSeq(txt, m[1], m[2])))))>>
                \o Candidates(txt, m[2] + 1)

Count(txt, tok) == Cardinality({i \in 1..Len(txt) : txt[i] = tok})

\* looks_complete, the heuristics of extract_sql.
looks_complete(s) ==
    /\ ~DISALLOWED(s)
    /\ StartsWithSelect(s)
    /\ \E i \in 1..Len(s) : Upper(s[i]) = "FROM"
    /\ RStrip(s) # <<>> =>
          /\ RStrip(s)[Len(RStrip(s))] \notin {",", "+", "-", "*", "/"}
          /\ Upper(RStrip(s)[Len(RStrip(s))]) \notin
                 {"ORDER", "GROUP", "WHERE", "JOIN", "ON", "LIMIT", "OFFSET"}
    /\ Count(s, "(") = Count(s, ")")

\* extract_sql: the last candidate that looks complete, and when none does
\* the last candidate anyway.
extract_sql(candidate) ==
    IF candidate = <<>> THEN None
    ELSE LET txt == Strip(StripFences(StripThink(Strip(candidate))))
             candidates == Candidates(txt, 1)
             complete == {k \in 1..Len(candidates) : looks_complete(candidates[k])}
         IN  IF candidates = <<>> THEN None
             ELSE IF complete # {}
             THEN Some(candidates[CHOOSE k \in complete : \A h \in complete : h <= k])
             ELSE Some(candidates[Len(candidates)])

\* ORDER\s+BY\s+ at token i, with one whitespace token in each gap.
OrderByAt(sql, i) ==
    /\ i + 3 <= Len(sql)
    /\ Upper(sql[i]) = "ORDER" /\ sql[i + 1] \in Whitespace
    /\ Upper(sql[i + 2]) = "BY" /\ sql[i + 3] \in Whitespace

\* The last token of [^\n;]+ after the ORDER BY at i; i + 3 when it is empty.
RunEnd(sql, i) ==
    CHOOSE e \in (i + 3)..Len(sql) :
        /\ \A k \in (i + 4)..e : sql[k] \notin {NL, BlankLine, ";"}
        /\ e = Len(sql) \/ sql[e + 1] \in {NL, BlankLine, ";"}

\* re.sub(r"(ORDER\s+BY\s+[^\n;]+?)\bDESC\b", r"\1ASC", sql, flags=re.I), and
\* the same with the two directions exchanged: after each ORDER BY the first
\* word old of the clause becomes new.
RECURSIVE ForceDirection(_, _, _, _)
ForceDirection(sql, pos, old, new) ==
    LET hits == {i \in pos..Len(sql) :
                    /\ OrderByAt(sql, i)
                    /\ \E k \in (i + 5)..RunEnd(sql, i) : Upper(sql[k]) = old}
    IN  IF hits = {} THEN sql
        ELSE LET i == CHOOSE i \in hits : \A h \in hits : i <= h
                 k == CHOOSE k \in (i + 5)..RunEnd(sql, i) :
                         /\ Upper(sql[k]) = old
                         /\ \A j \in (i + 5)..(k - 1) : Upper(sql[j]) # old
             IN  ForceDirection([sql EXCEPT ![k] = new], k + 1, old, new)

\* re.search(r"\bORDER\s+BY\s+[^\n;]+\b(ASC|DESC)\b", sql, flags=re.I)
HasDirection(sql) ==
    \E i \in 1..Len(sql) :
        /\ OrderByAt(sql, i)
        /\ \E k \in (i + 5)..RunEnd(sql, i) : Upper(sql[k]) \in {"ASC", "DESC"}

\* re.sub(r"(ORDER\s+BY\s+[^\n;]+)", r"\1 ASC", sql, flags=re.I): the
\* direction goes to the end of each ORDER BY clause.
RECURSIVE AppendDirection(_, _, _)
AppendDirection(sql, pos, dir) ==
    LET hits == {i \in pos..Len(sql) : OrderByAt(sql, i) /\ RunEnd(sql, i) >= i + 4}
    IN  IF hits = {} THEN sql
        ELSE LET i == CHOOSE i \in hits : \A h \in hits : i <= h
                 e == RunEnd(sql, i)
             IN  AppendDirection(SubSeq(sql, 1, e) \o <<SP, dir>>
                                    \o SubSeq(sql, e + 1, Len(sql)),
                                 e + 3, dir)

\* The direction forced for one family of question words.
Forced(sql, old, new) ==
    LET replaced == ForceDirection(sql, 1, old, new)
    IN  IF HasDirection(replaced) THEN replaced ELSE AppendDirection(replaced, 1, new)

\* A question, by what the tool reads in it: whether it names outlets or
\* ROs, a word of the lowest family, a word of the top family, and the count
\* after "top" or "lowest" (0 when there is none).
Questions ==
    { [text |-> "ms by company", outlets |-> FALSE, lowest |-> FALSE, top |-> FALSE, count |-> 0],
      [text |-> "top 5 companies", outlets |-> FALSE, lowest |-> FALSE, top |-> TRUE, count |-> 5],
      [text |-> "lowest 5 outlets", outlets |-> TRUE, lowest |-> TRUE, top |-> FALSE, count |-> 5],
      [text |-> "top 10 outlets", outlets |-> TRUE, lowest |-> FALSE, top |-> TRUE, count |-> 10],
      [text |-> "best ro", outlets |-> TRUE, lowest |-> FALSE, top |-> TRUE, count |-> 0],
      [text |-> "top 5 lowest outlets", outlets |-> TRUE, lowest |-> TRUE, top |-> TRUE, count |-> 5] }

\* normalize_outlet_aggregates: the function returns at line 363, after the
\* ordering and the LIMIT; the aggregate rewriting below that line is never
\* reached.
normalize_outlet_aggregates(sql, question) ==
    IF ~question.outlets THEN sql
    ELSE LET low == IF question.lowest THEN Forced(sql, "DESC", "ASC") ELSE sql
             ord == IF question.top THEN Forced(low, "ASC", "DESC") ELSE low
         IN  IF \E i \in 1..Len(ord) : Upper(ord[i]) = "LIMIT" THEN ord
             ELSE IF question.count = 5 THEN ord \o <<SP, "LIMIT", SP, "5">>
             ELSE IF question.count = 10 THEN ord \o <<SP, "LIMIT", SP, "10">>
             ELSE ord

\* generate_sql_ollama: the retries after the first call.
max_retries == 2

Valid == <<"SELECT", SP, "x", SP, "FROM", SP, "t">>
DropTail == <<";", SP, "drop", SP, "table", SP, "t">>
Ordered == <<"select", SP, "x", SP, "from", SP, "t", SP, "order", SP, "by", SP, "x">>

\* Texts given with --sql or in the file of --sql-file.
Statements ==
    { Valid,
      <<SP>> \o Valid \o <<";">>,
      <<"select", SP, "updated_at", SP, "from", SP, "t">>,
      Valid \o <<";", SP, "DROP", SP, "TABLE", SP, "t">>,
      Valid \o <<NL>> \o DropTail,
      <<"DROP", SP, "TABLE", SP, "t">>,
      <<"pragma", SP, "table_info", "(", "t", ")">>,
      <<"SELECTED", SP, "x", SP, "FROM", SP, "t">>,
      <<"WITH", SP, "c", SP, "AS", SP, "(">> \o Valid \o <<")", SP>> \o Valid,
      <<"SELECT", SP, "x", SP, "FROM", SP, "\"", "delete", "\"">>,
      <<SP>> }

\* Raw responses of the model.
ModelOutputs ==
    { <<>>,
      Valid,
      <<ThinkOpen, "drop", SP, "it", ThinkClose, SP>> \o Valid,
      <<FenceSql, NL>> \o Valid \o <<NL, Fence>>,
      <<"I", SP, "cannot">>,
      <<"select", SP, "x">>,
      Ordered \o DropTail,
      Valid \o <<BlankLine>> \o Valid \o <<SP, "where">>,
      <<"delete", SP, "from", SP, "t", ";", SP>> \o Valid,
      Ordered \o <<SP, "desc", ";">>,
      Ordered \o <<",", SP, "y", SP, "ASC">>,
      Valid \o <<SP, "where", BlankLine>> \o <<"SELECT", SP, "x", SP, "FROM", SP, "t", SP, "WHERE">> }

\* The --sql-file argument: absent, a path that does not exist, or a file.
SqlFiles ==
    { [given |-> FALSE], [given |-> TRUE, exists |-> FALSE] }
        \cup { [given |-> TRUE, exists |-> TRUE, text |-> s] :
                  s \in {Valid \o <<NL>>, Valid \o DropTail} }

\* One invocation: the command line of main(), or the import of the API
\* module main.py.
InitTool ==
    /\ \E entry \in {"cli", "api"}, sql \in Statements \cup {<<>>}, sql_file \in SqlFiles,
          question \in {Some(q) : q \in Questions} \cup {None}, db_exists \in BOOLEAN :
          /\ entry = "api" => (sql = <<>> /\ ~sql_file.given /\ question = None /\ db_exists)
          /\ cli = [pc |-> IF entry = "cli" THEN "main" ELSE "import",
                    args |-> [sql |-> sql, sql_file |-> sql_file,
                              question |-> question, db_exists |-> db_exists]]
    /\ database = <<>>
    /\ BuildIdle /\ fp = Idle /\ rd = Idle /\ lh = Idle /\ OrchIdle

\* main.py imports normalize_ordering from text_to_sql_ollama, where the
\* name is local to normalize_outlet_aggregates: the import raises, and no
\* route of the API is ever served.
ApiImport ==
    /\ cli.pc = "import"
    /\ cli' = [cli EXCEPT !.pc = "import_error"]
    /\ UNCHANGED <<database, agg, bp, fp, rd, lh, pc, area_i, month_i, area_res,
                   results, visited, nfail>>

\* raw_sql of main(): --sql wins over --sql-file; both are stripped.
RawSql(args) ==
    IF args.sql # <<>> THEN Some(Strip(args.sql))
    ELSE IF args.sql_file.given THEN Some(Strip(args.sql_file.text))
    ELSE None

\* main() up to the call of generate_sql_ollama: the raw statement is
\* executed and printed, or the schema is read for the question.
Main ==
    /\ cli.pc = "main"
    /\ LET args == cli.args
       IN  IF ~args.db_exists
              \/ (args.sql = <<>> /\ args.sql_file.given /\ ~args.sql_file.exists)
           THEN cli' = [cli EXCEPT !.pc = "exit"] /\ UNCHANGED database
           ELSE IF RawSql(args) # None /\ RawSql(args)[1] # <<>>
           THEN LET r == execute_sql(database, RawSql(args)[1])
                IN  /\ cli' = [pc |-> IF r.raised THEN "sql_error" ELSE "printed",
                               args |-> args, sql |-> RawSql(args), calls |-> 0]
                    /\ database' = r.db
           ELSE IF args.question = None \/ args.question[1].text = ""
           THEN cli' = [cli EXCEPT !.pc = "exit"] /\ UNCHANGED database
           ELSE /\ cli' = [pc |-> "generate", args |-> args, sql |-> None, calls |-> 0]
                /\ database' = introspect_schema(database)
    /\ UNCHANGED <<agg, bp, fp, rd, lh, pc, area_i, month_i, area_res, results,
                   visited, nfail>>

\* generate_sql_ollama: one call of the model and extract_sql on its
\* response; the request itself may raise.
CallOllama ==
    /\ cli.pc = "generate" /\ cli.sql = None /\ cli.calls <= max_retries
    /\ \/ \E out \in ModelOutputs :
             cli' = [cli EXCEPT !.sql = extract_sql(out), !.calls = @ + 1]
       \/ cli' = [cli EXCEPT !.pc = "generation_error", !.calls = @ + 1]
    /\ UNCHANGED <<database, agg, bp, fp, rd, lh, pc, area_i, month_i, area_res,
                   results, visited, nfail>>

\* generate_sql_ollama raises when the retries are used up.
GenerateFails ==
    /\ cli.pc = "generate" /\ cli.sql = None /\ cli.calls = max_retries + 1
    /\ cli' = [cli EXCEPT !.pc = "generation_error"]
    /\ UNCHANGED <<database, agg, bp, fp, rd, lh, pc, area_i, month_i, area_res,
                   results, visited, nfail>>

\* main() after generate_sql_ollama returned: the text is normalised.
Normalize ==
    /\ cli.pc = "generate" /\ cli.sql # None
    /\ cli' = [cli EXCEPT !.pc = "execute",
                          !.sql = Some(normalize_outlet_aggregates(
                                           cli.sql[1], cli.args.question[1]))]
    /\ UNCHANGED <<database, agg, bp, fp, rd, lh, pc, area_i, month_i, area_res,
                   results, visited, nfail>>

\* main(): the generated statement is executed and printed.
Execute ==
    /\ cli.pc = "execute"
    /\ LET r == execute_sql(database, cli.sql[1])
       IN  /\ cli' = [cli EXCEPT !.pc = IF r.raised THEN "sql_error" ELSE "printed"]
           /\ database' = r.db
    /\ UNCHANGED <<agg, bp, fp, rd, lh, pc, area_i, month_i, area_res, results,
                   visited, nfail>>

NextTool == ApiImport \/ Main \/ CallOllama \/ GenerateFails \/ Normalize \/ Execute

SpecTool == InitTool /\ [][NextTool]_vars

----------------------------------------------------------------------------
(* Claims about the arithmetic of replicator_dynamics.                     *)

\* Every cell of M lies in [-cap, cap].
InBand(M) ==
    \A i \in 1..Len(M) : \A j \in 1..Len(M) : RLe(RNeg(cap), M[i][j]) /\ RLe(M[i][j], cap)

StrictlyPositive(p) == \A i \in 1..Len(p) : RLt(Zero, p[i])

\* In exact arithmetic, on a matrix within the cap and with dt = 0.01: a
\* run from the uniform vector has every entry of p above 0 before and after
\* each pass, and a pass from any p with every entry above 0 yields an
\* update with every entry above 0, which the clipping leaves as it is.
C24_ExactStaysPositive ==
    /\ (rd.pc \in {"loop", "returned"} /\ InBand(rd.payoff_matrix) /\ rd.dt = dt_default) =>
          /\ StrictlyPositive(rd.p)
          /\ (rd.pc = "loop" /\ rd.t < rd.steps) =>
                LET u == EulerUpdate(rd.payoff_matrix, rd.p, rd.dt)
                IN  StrictlyPositive(u) /\ ClipNegative(u) = u
    /\ (/\ rd.pc = "body_done" /\ InBand(rd.payoff_matrix) /\ rd.dt = dt_default
        /\ StrictlyPositive(rd.p0)) =>
          /\ StrictlyPositive(rd.p)
          /\ LET u == EulerUpdate(rd.payoff_matrix, rd.p0, rd.dt)
             IN  StrictlyPositive(u) /\ ClipNegative(u) = u

\* In binary64 no entry of p is below 0 after a pass.
C24_FloatNeverNegative ==
    rd.pc \in {"loop64", "returned64"} =>
        \A i \in 1..Len(rd.p) : rd.p[i].m = <<>> \/ rd.p[i].sign > 0

\* C24: for every matrix with entries in [-50, 50] and dt = 0.01, in exact
\* arithmetic every entry of p stays strictly positive at every iteration
\* and clipping never changes p; in the binary64 arithmetic of the program
\* the entries stay at or above 0.
C24_PositiveInExactArithmetic == C24_ExactStaysPositive /\ C24_FloatNeverNegative

\* One exact pass on the matrix of a company that loses the whole market to
\* another, from a distribution that is not uniform.
C24_Witness ==
    /\ rd.pc = "body_done" /\ rd.dt = dt_default
    /\ rd.payoff_matrix = << <<RNeg(cap), RNeg(cap)>>, <<cap, cap>> >>
    /\ rd.p0 = << <<3, 4>>, <<1, 4>> >>
    /\ StrictlyPositive(rd.p) /\ RLt(rd.p[1], rd.p0[1])

\* C24 as stated, of the runs of the program: every entry of p is strictly
\* positive at every iteration, the clipping never changes p, and no entry
\* ever becomes exactly 0.
C24_StrictlyPositiveAtEveryIteration ==
    /\ C24_ExactStaysPositive
    /\ rd.pc \in {"loop64", "returned64"} =>
          /\ \A i \in 1..Len(rd.p) : F64Positive(rd.p[i])
          /\ \A i \in 1..Len(rd.updated) : rd.updated[i].sign > 0

----------------------------------------------------------------------------
(* Claims about the text-to-SQL tool.                                      *)

\* The statements execute_sql handed to the database.
C30_Gate ==
    \A k \in 1..Len(database) :
        database[k].via = "execute_sql" =>
            StartsWithSelect(database[k].sql) /\ ~DISALLOWED(database[k].sql)

\* A step that ends in the error of execute_sql leaves the database as it
\* was, and a step that executes a statement executes the text of the run.
C30_RejectedNotExecuted ==
    /\ cli'.pc = "sql_error" => database' = database
    /\ cli'.pc = "printed" => database' = Append(database,
                                  [via |-> "execute_sql", sql |-> cli'.sql[1]])

====
